---- MODULE Spec2Model ----
(***************************************************************************)
(* The dictionary-driven order parser of src/order-reader/index.js.        *)
(*                                                                         *)
(* A text is a sequence of one-character strings.  A JavaScript object is  *)
(* a sequence of [key, val] entries in insertion order (the order in which *)
(* Object.keys and Object.entries enumerate it).  A value carries a tag t: *)
(* "str" (a text), "meta" (the warnings block), "arr" (an array of cooked  *)
(* records) or "undef" (a property that is absent).                        *)
(*                                                                         *)
(* One parse() call is the state machine: the 'line' and 'close' events of *)
(* the readline interface are the actions, each the whole handler.         *)
(***************************************************************************)
EXTENDS Integers, Sequences, FiniteSets, TLC

\* Number of 'line' events one parse is followed for.
MaxLines == 5

\* The matches of one allMatches call that are kept count of
MaxMatches == 3

NL == "\n"

----------------------------------------------------------------------------
(* Texts *)

IsBlankChar(c) == c \in {" ", NL}

SetMin(S) == CHOOSE x \in S : \A y \in S : x <= y
SetMax(S) == CHOOSE x \in S : \A y \in S : y <= x

\* String.prototype.trim
trim(s) ==
  LET keep == {i \in 1..Len(s) : ~IsBlankChar(s[i])}
  IN  IF keep = {} THEN <<>> ELSE SubSeq(s, SetMin(keep), SetMax(keep))

\* String.prototype.slice(from, to) with 0-based, end-exclusive indices
slice(s, from, to) == SubSeq(s, from + 1, to)

\* Is a text the start of a line
StartsWith(line, text) ==
  Len(line) >= Len(text) /\ SubSeq(line, 1, Len(text)) = text

\* Does the alternative a match s at the 0-based index i
MatchesAt(a, s, i) == i + Len(a) <= Len(s) /\ slice(s, i, i + Len(a)) = a

----------------------------------------------------------------------------
(* Values and objects *)

Undef == [t |-> "undef"]
Null == [t |-> "null"]
Str(s) == [t |-> "str", s |-> s]
Arr(items) == [t |-> "arr", items |-> items]
MetaVal(msgs) == [t |-> "meta", ignored_text |-> msgs]

\* JavaScript truthiness of a property value
Truthy(v) ==
  CASE v.t = "undef" -> FALSE
    [] v.t = "null"  -> FALSE
    [] v.t = "str"   -> v.s # <<>>
    [] OTHER         -> TRUE

HasKey(obj, k) == \E i \in 1..Len(obj) : obj[i].key = k

\* obj[k]
Get(obj, k) ==
  IF HasKey(obj, k)
    THEN obj[CHOOSE i \in 1..Len(obj) : obj[i].key = k].val
    ELSE Undef

\* obj[k] = v : an existing key keeps its place, a new key goes last
Set(obj, k, v) ==
  IF HasKey(obj, k)
    THEN [i \in 1..Len(obj) |->
            IF obj[i].key = k THEN [key |-> k, val |-> v] ELSE obj[i]]
    ELSE Append(obj, [key |-> k, val |-> v])

\* Object.keys(obj)
Keys(obj) == [i \in 1..Len(obj) |-> obj[i].key]

\* The key under which ObjectBuilder keeps the warnings of a raw capture
MetaKey == <<"_", "m", "e", "t", "a">>

----------------------------------------------------------------------------
(* Dictionaries.  A dictionary is the sequence of its type definitions in  *)
(* declaration order, plus the reserved options entry.  fields maps a      *)
(* field name to its header, fields_by_header a header to a processor      *)
(* configuration.                                                          *)

NoOwner == [declared |-> FALSE]
Owner(matchOn, as) == [declared |-> TRUE, match_on |-> matchOn, as |-> as]

NoSeparator == [given |-> FALSE]

TypeDef(name, fields, byHeader, owner) ==
  [name |-> name, fields |-> fields, fields_by_header |-> byHeader,
   belongs_to |-> owner]

Field(f, h) == [field |-> f, header |-> h]
ByHeader(h, def) == [header |-> h, def |-> def]

H_Foo == <<"F", "o", "o", ":">>
H_Bar == <<"B", "a", "r", ":">>
H_foo == <<"f", "o", "o", ":">>
H_bar == <<"b", "a", "r", ":">>
H_A == <<"A", ":">>
H_B == <<"B", ":">>
H_S == <<"S", ":">>

\* One type, a header declared in fields and one declared in
\* fields_by_header with the trimmed processor.
DictOrder ==
  [types |-> <<TypeDef("Order",
                       <<Field("foo", H_Foo)>>,
                       <<ByHeader(H_Bar, [type |-> "trimmed", field |-> "bar"])>>,
                       NoOwner)>>,
   options |-> [record_separator |-> NoSeparator]]

\* The owning relationship of the test suite: suborders belong to the
\* order with the same foo.
DictOwner ==
  [types |-> <<TypeDef("Order", <<Field("foo", H_Foo)>>, <<>>, NoOwner),
               TypeDef("Suborder",
                       <<Field("foo", H_foo), Field("bar", H_bar)>>,
                       <<>>,
                       Owner("foo", "suborders"))>>,
   options |-> [record_separator |-> NoSeparator]]

\* Two types that share the header "S:".
DictShared ==
  [types |-> <<TypeDef("Alpha", <<Field("a", H_A), Field("s", H_S)>>, <<>>, NoOwner),
               TypeDef("Beta", <<Field("b", H_B), Field("s", H_S)>>, <<>>, NoOwner)>>,
   options |-> [record_separator |-> NoSeparator]]

Dictionaries == {DictOrder, DictOwner, DictShared}

\* belongs_to: {by: ..., as: ...}.  Nothing reads by; match_on is undefined,
\* and o[undefined] is the property of the name "undefined".
OwnerBy(by, as) ==
  [declared |-> TRUE, by |-> by, match_on |-> "undefined", as |-> as]

\* The dictionary of the test 'allows objects to belong to other objects',
\* as the test writes it.
DictBy ==
  [types |-> <<TypeDef("Order", <<Field("foo", H_Foo)>>, <<>>, NoOwner),
               TypeDef("Suborder",
                       <<Field("foo", H_foo), Field("bar", H_bar)>>,
                       <<>>,
                       OwnerBy("foo", "suborders"))>>,
   options |-> [record_separator |-> NoSeparator]]

\* An owning relationship whose as is the name of a field of the owner.
DictAs ==
  [types |-> <<TypeDef("Order", <<Field("foo", H_Foo)>>, <<>>, NoOwner),
               TypeDef("Suborder",
                       <<Field("foo", H_foo), Field("bar", H_bar)>>,
                       <<>>,
                       Owner("foo", "foo"))>>,
   options |-> [record_separator |-> NoSeparator]]

H_FooBare == <<"F", "o", "o">>

\* Two headers of which one is the start of the other, the shorter declared
\* first, and the same two with the longer declared first.
DictShortFirst ==
  [types |-> <<TypeDef("Order",
                       <<Field("bare", H_FooBare), Field("foo", H_Foo)>>,
                       <<>>, NoOwner)>>,
   options |-> [record_separator |-> NoSeparator]]

DictLongFirst ==
  [types |-> <<TypeDef("Order",
                       <<Field("foo", H_Foo), Field("bare", H_FooBare)>>,
                       <<>>, NoOwner)>>,
   options |-> [record_separator |-> NoSeparator]]

\* A type that declares the empty text as a header, and a type that
\* declares no header.
DictEmptyHeader ==
  [types |-> <<TypeDef("Order",
                       <<Field("foo", H_Foo), Field("empty", <<>>)>>,
                       <<>>, NoOwner)>>,
   options |-> [record_separator |-> NoSeparator]]

DictNoHeaders ==
  [types |-> <<TypeDef("Order", <<>>, <<>>, NoOwner)>>,
   options |-> [record_separator |-> NoSeparator]]

\* An owning relationship on foo in which an order need not have a foo.
DictOptional ==
  [types |-> <<TypeDef("Order", <<Field("foo", H_Foo), Field("bar", H_Bar)>>,
                       <<>>, NoOwner),
               TypeDef("Suborder",
                       <<Field("foo", H_foo), Field("bar", H_bar)>>,
                       <<>>,
                       Owner("foo", "suborders"))>>,
   options |-> [record_separator |-> NoSeparator]]

H_T == <<"T", ":">>
H_C == <<"C", ":">>

\* A type whose header "T:" is a field followed by a table of two columns.
DictTable ==
  [types |-> <<TypeDef("Order",
                       <<>>,
                       <<ByHeader(H_T, [type |-> "field_followed_by_table",
                                        field_name |-> "name",
                                        table_name |-> "rows",
                                        num_columns |-> 2])>>,
                       NoOwner)>>,
   options |-> [record_separator |-> NoSeparator]]

H_PrimaryLocation == <<"P", "r", "i", "m", "a", "r", "y", " ", "L", "o", "c", "a", "t", "i", "o", "n">>

\* The Order type of the conversion service, cut down to its location
\* header.
DictLocation ==
  [types |-> <<TypeDef("Order",
                       <<>>,
                       <<ByHeader(H_PrimaryLocation,
                                  [type |-> "primary_secondary_location",
                                   location_field |-> "primary_secondary_location",
                                   contacts_field |-> "contacts"])>>,
                       NoOwner)>>,
   options |-> [record_separator |-> NoSeparator]]

\* A fields_by_header entry without the option its processor requires.
DictNoOption ==
  [types |-> <<TypeDef("Order",
                       <<Field("foo", H_Foo)>>,
                       <<ByHeader(H_Bar, [type |-> "trimmed"])>>,
                       NoOwner)>>,
   options |-> [record_separator |-> NoSeparator]]

\* A fields_by_header entry whose processor kind FIELD_TYPES does not have.
DictUnknownKind ==
  [types |-> <<TypeDef("Order",
                       <<Field("foo", H_Foo)>>,
                       <<ByHeader(H_Bar, [type |-> "upper", field |-> "bar"])>>,
                       NoOwner)>>,
   options |-> [record_separator |-> NoSeparator]]

\* A pattern of options.record_separator: a literal text, anchored at the
\* start of the line, at its end, at both or at neither.
Pattern(atStart, literal, atEnd) ==
  [given |-> TRUE, atStart |-> atStart, literal |-> literal, atEnd |-> atEnd]

Dashes == <<"-", "-", "-">>

\* The custom record separator of the test suite, "^---$".
DictCustom ==
  [types |-> <<TypeDef("Order", <<Field("foo", H_Foo)>>, <<>>, NoOwner)>>,
   options |-> [record_separator |-> Pattern(TRUE, Dashes, TRUE)]]

\* The same with the pattern "^---", which a line that goes on after the
\* dashes matches too.
DictCustomOpen ==
  [types |-> <<TypeDef("Order", <<Field("foo", H_Foo)>>, <<>>, NoOwner)>>,
   options |-> [record_separator |-> Pattern(TRUE, Dashes, FALSE)]]

\* The dictionary of DictCustom without options: the default separator.
DictPlain ==
  [types |-> <<TypeDef("Order", <<Field("foo", H_Foo)>>, <<>>, NoOwner)>>,
   options |-> [record_separator |-> NoSeparator]]

\* Three types, two of which share the header "S:".
DictThree ==
  [types |-> <<TypeDef("Alpha", <<Field("a", H_A)>>, <<>>, NoOwner),
               TypeDef("Beta", <<Field("b", H_B), Field("s", H_S)>>, <<>>, NoOwner),
               TypeDef("Gamma", <<Field("c", H_C), Field("s", H_S)>>, <<>>, NoOwner)>>,
   options |-> [record_separator |-> NoSeparator]]

\* The lines an input stream may deliver under each dictionary.
LinesOrder ==
  { <<"F", "o", "o", ":", " ", "1">>,
    <<"L", "i", "n", "e", " ", "2">>,
    <<" ", " ", "B", "a", "r", ":">>,
    <<"F", "o", "o", ":", "B", "a", "r", ":", " ", "2">>,
    <<"H", "i", " ", "F", "o", "o", ":", " ", "3">>,
    <<>>,
    <<"_", "_">> }

LinesOwner ==
  { <<"F", "o", "o", ":", " ", "1">>,
    <<"F", "o", "o", ":", " ", "2">>,
    <<"f", "o", "o", ":", " ", "1">>,
    <<"b", "a", "r", ":", " ", "x">>,
    <<"f", "o", "o", ":", " ", "1", "b", "a", "r", ":", " ", "x">>,
    <<"_", "_">> }

LinesShared ==
  { <<"A", ":", "1">>,
    <<"B", ":", "2">>,
    <<"S", ":", "3">>,
    <<"x">>,
    <<"_", "_", "_">> }

LinesTable ==
  { <<"T", ":", " ", "n">>,
    <<"a">>,
    <<" ", "b", " ">>,
    <<>>,
    <<"_", "_">> }

LinesLocation ==
  { <<"P", "r", "i", "m", "a", "r", "y", " ", "L", "o", "c", "a", "t", "i", "o", "n">>,
    <<"S", "e", "c", "o", "n", "d", "a", "r", "y", " ", "L", "o", "c", "a", "t", "i", "o", "n">>,
    <<"L", "a", "b", " ", "1">>,
    <<"C", "o", "n", "t", "a", "c", "t", " ", "N", "a", "m", "e", " ", "A">>,
    <<"C", "o", "n", "t", "a", "c", "t", " ", "N", "a", "m", "e", " ", "B">>,
    <<"T", "e", "l", "e", "p", "h", "o", "n", "e", " ", "1">>,
    <<"T", "e", "l", "e", "p", "h", "o", "n", "e", " ", "2">>,
    <<"_", "_">> }

LinesBy ==
  { <<"F", "o", "o", ":", " ", "1">>,
    <<"f", "o", "o", ":", " ", "1">>,
    <<"f", "o", "o", ":", " ", "2">>,
    <<"b", "a", "r", ":", " ", "x">>,
    <<"_", "_">> }

LinesOptional ==
  { <<"F", "o", "o", ":", " ", "1">>,
    <<"B", "a", "r", ":", " ", "2">>,
    <<"f", "o", "o", ":", " ", "1">>,
    <<"b", "a", "r", ":", " ", "x">>,
    <<"_", "_">> }

LinesAs ==
  { <<"F", "o", "o", ":">>,
    <<"F", "o", "o", ":", " ", "1">>,
    <<"f", "o", "o", ":">>,
    <<"f", "o", "o", ":", " ", "1">>,
    <<"_", "_">> }

LinesPrefix ==
  { <<"F", "o", "o", ":", " ", "1">>,
    <<"F", "o", "o", " ", "2">>,
    <<"a", " ", "F", "o", "o", ":">>,
    <<"x">>,
    <<"_", "_">> }

LinesEmpty ==
  { <<"F", "o", "o", ":", " ", "1">>,
    <<"x">>,
    <<>>,
    <<"_", "_">> }

LinesConfig ==
  { <<"F", "o", "o", ":", " ", "1">>,
    <<"B", "a", "r", ":", " ", "2">>,
    <<"_", "_">> }

LinesCustom ==
  { <<"F", "o", "o", ":", " ", "1">>,
    <<"-", "-", "-">>,
    <<"-", "-", "-", "F", "o", "o", ":">>,
    <<"_", "_">> }

LinesThree ==
  { <<"A", ":", "1">>,
    <<"B", ":", "2">>,
    <<"S", ":", "3">>,
    <<"_", "_">> }

InputLines(d) ==
  CASE d = DictOrder  -> LinesOrder
    [] d = DictOwner  -> LinesOwner
    [] d = DictShared -> LinesShared
    [] d = DictTable  -> LinesTable
    [] d \in {DictNoOption, DictUnknownKind} -> LinesConfig
    [] d \in {DictCustom, DictCustomOpen, DictPlain} -> LinesCustom
    [] d = DictThree  -> LinesThree
    [] d = DictLocation -> LinesLocation
    [] d = DictBy -> LinesBy
    [] d \in {DictEmptyHeader, DictNoHeaders} -> LinesEmpty
    [] d \in {DictShortFirst, DictLongFirst} -> LinesPrefix
    [] d = DictAs -> LinesAs
    [] d = DictOptional -> LinesOptional

\* The number of lines a parse is followed for under each dictionary.  Two
\* owners and a child take five lines, and so does a table of one row; the
\* cases of the other dictionaries take at most four.
LineBudget(d) == IF d \in {DictOwner, DictTable} THEN MaxLines ELSE MaxLines - 1

----------------------------------------------------------------------------
(* FieldDictionary *)

\* FieldDictionary.allHeaders: per type, the headers of fields and then the
\* keys of fields_by_header.
RECURSIVE allHeaders(_)
allHeaders(types) ==
  IF types = <<>> THEN <<>>
  ELSE LET td == Head(types)
       IN  [i \in 1..Len(td.fields) |-> td.fields[i].header]
           \o [i \in 1..Len(td.fields_by_header) |-> td.fields_by_header[i].header]
           \o allHeaders(Tail(types))

\* The test of typesForHeader's loop body: does this type declare the header
DeclaresHeader(td, header) ==
  \/ \E i \in 1..Len(td.fields) : td.fields[i].header = header
  \/ \E i \in 1..Len(td.fields_by_header) : td.fields_by_header[i].header = header

\* FieldDictionary.typesForHeader: the declaring type names, in dictionary
\* order, each at most once.
RECURSIVE typesForHeader(_, _)
typesForHeader(types, header) ==
  IF types = <<>> THEN <<>>
  ELSE (IF DeclaresHeader(Head(types), header) THEN <<Head(types).name>> ELSE <<>>)
       \o typesForHeader(Tail(types), header)

\* this.data[typeName]
TypeNamed(d, typeName) ==
  d.types[CHOOSE i \in 1..Len(d.types) : d.types[i].name = typeName]

\* FieldDictionary.ownerOf
ownerOf(d, typeName) == TypeNamed(d, typeName).belongs_to

\* DEFAULT_RECORD_SEPARATOR = /^_+$/
DEFAULT_RECORD_SEPARATOR(line) ==
  Len(line) >= 1 /\ \A i \in 1..Len(line) : line[i] = "_"

\* new RegExp(sep).exec(line) for a pattern of an anchored literal: is there
\* a place in the line at which the pattern matches
RegExpExec(sep, line) ==
  \E i \in 0..Len(line) :
    /\ MatchesAt(sep.literal, line, i)
    /\ sep.atStart => i = 0
    /\ sep.atEnd => i + Len(sep.literal) = Len(line)

\* recordSeparator as it would be if options.record_separator were not read
recordSeparatorDefaultOnly(d, line) == DEFAULT_RECORD_SEPARATOR(line)

\* FieldDictionary.recordSeparator applied to a line
recordSeparator(d, line) ==
  IF d.options.record_separator.given
    THEN RegExpExec(d.options.record_separator, line)
    ELSE DEFAULT_RECORD_SEPARATOR(line)

\* FIELD_TYPES.trimmed
FieldTrimmed(opts, obj, header, value) == Set(obj, opts.field, Str(trim(value)))

\* splitLines: the texts between the newlines of a text
RECURSIVE splitLines(_)
splitLines(string) ==
  LET nls == {i \in 1..Len(string) : string[i] = NL}
  IN  IF nls = {} THEN <<string>>
      ELSE <<SubSeq(string, 1, SetMin(nls) - 1)>>
           \o splitLines(SubSeq(string, SetMin(nls) + 1, Len(string)))

\* _.zipObject: the later of two equal keys gives the value
RECURSIVE zipObject(_, _)
zipObject(props, values) ==
  IF props = <<>> THEN <<>>
  ELSE LET n == Len(props)
       IN  Set(zipObject(SubSeq(props, 1, n - 1), SubSeq(values, 1, n - 1)),
               props[n], Str(values[n]))

\* A table: the array of its row objects
Table(rows) == [t |-> "table", rows |-> rows]

\* The error of a read of the undeclared variable name
ReferenceError(name) == [kind |-> "reference_error", name |-> name]

\* The error of a call of something that is no function
TypeError(what) == [kind |-> "type_error", property |-> what]

\* The lines of a table value after the first, trimmed, without the blank ones
tableLines(value) ==
  LET lines == splitLines(value)
  IN  SelectSeq([i \in 1..(Len(lines) - 1) |-> trim(lines[i + 1])],
                LAMBDA s : s # <<>>)

\* field_followed_by_table as it would be if the column names were taken for
\* the first row
FieldFollowedByTableKeepsHeaderRow(opts, obj, header, value) ==
  LET lines == splitLines(value)
      withField == Set(obj, opts.field_name, Str(trim(lines[1])))
      tl == tableLines(value)
      n == opts.num_columns
  IN  IF Len(tl) % n # 0
        THEN [threw |-> TRUE, error |-> ReferenceError("trimmedLines")]
      ELSE
        LET rows == [i \in 1..(Len(tl) \div n) |->
                       zipObject(SubSeq(tl, 1, n),
                                 SubSeq(tl, (i - 1) * n + 1, i * n))]
        IN  [threw |-> FALSE, obj |-> Set(withField, opts.table_name, Table(rows))]

\* FIELD_TYPES.field_followed_by_table, the function it returns.  The branch
\* for a line count that num_columns does not divide reads trimmedLines, a
\* name declared nowhere, before it comes to its throw statement.
FieldFollowedByTable(opts, obj, header, value) ==
  LET lines == splitLines(value)
      simpleVal == trim(lines[1])
      withField == Set(obj, opts.field_name, Str(simpleVal))
      tl == tableLines(value)
      numColumns == opts.num_columns
  IN  IF Len(tl) % numColumns # 0
        THEN [threw |-> TRUE, error |-> ReferenceError("trimmedLines")]
      ELSE
        LET numRows == (Len(tl) \div numColumns) - 1
            colNames == SubSeq(tl, 1, numColumns)
            rows == [i \in 1..numRows |->
                       zipObject(colNames,
                                 SubSeq(tl, i * numColumns + 1, (i + 1) * numColumns))]
        IN  [threw |-> FALSE, obj |-> Set(withField, opts.table_name, Table(rows))]

\* Array.prototype.slice(from, to): 0-based, end-exclusive, a negative index
\* counted from the end
arraySlice(arr, from, to) ==
  LET n == Len(arr)
      f == IF from < 0 THEN (IF n + from < 0 THEN 0 ELSE n + from)
                       ELSE (IF from > n THEN n ELSE from)
      t == IF to < 0 THEN (IF n + to < 0 THEN 0 ELSE n + to)
                     ELSE (IF to > n THEN n ELSE to)
  IN  IF f >= t THEN <<>> ELSE SubSeq(arr, f + 1, t)

\* lines.findIndex(l => /^text/.test(l)): the 0-based index of the first
\* line that starts with the text, or -1
findIndex(lines, text) ==
  LET at == {i \in 1..Len(lines) : StartsWith(lines[i], text)}
  IN  IF at = {} THEN -1 ELSE SetMin(at) - 1

\* lines.join('\n')
RECURSIVE join(_)
join(lines) ==
  IF lines = <<>> THEN <<>>
  ELSE IF Len(lines) = 1 THEN lines[1]
  ELSE lines[1] \o <<NL>> \o join(Tail(lines))

ContactLabel == <<"C", "o", "n", "t", "a", "c", "t", " ">>
ContactNameLabel == <<"C", "o", "n", "t", "a", "c", "t", " ", "N", "a", "m", "e", " ">>
TelephoneLabel == <<"T", "e", "l", "e", "p", "h", "o", "n", "e", " ">>
SecondaryLocationLabel == <<"S", "e", "c", "o", "n", "d", "a", "r", "y", " ", "L", "o", "c", "a", "t", "i", "o", "n">>

\* /^label(.*)$/.exec(line): the capture group, or null without a match
captureAfter(label, line) ==
  IF StartsWith(line, label)
    THEN Str(SubSeq(line, Len(label) + 1, Len(line)))
    ELSE Null

\* {name: contactName, phone: contactPhone}
Contact(name, phone) ==
  <<[key |-> "name", val |-> name], [key |-> "phone", val |-> phone]>>

\* The for loop of primary_secondary_location over the contact lines, two
\* lines at a time from the 0-based index i
RECURSIVE contactsLoop(_, _, _)
contactsLoop(contactLines, i, contacts) ==
  IF i >= Len(contactLines) THEN contacts
  ELSE
    LET contactName == captureAfter(ContactNameLabel, contactLines[i + 1])
        contactPhone == IF i + 1 < Len(contactLines)
                          THEN captureAfter(TelephoneLabel, contactLines[i + 2])
                          ELSE Null
    IN  contactsLoop(contactLines, i + 2,
                     IF Truthy(contactName) \/ Truthy(contactPhone)
                       THEN Append(contacts, Contact(contactName, contactPhone))
                       ELSE contacts)

\* The contacts of primary_secondary_location: the loop over the lines from
\* contactIndex on that are not blank
contactsOf(lines, contactIndex) ==
  contactsLoop(SelectSeq(arraySlice(lines, contactIndex, Len(lines)),
                         LAMBDA l : trim(l) # <<>>),
               0, <<>>)

\* The location of primary_secondary_location: the lines after the
\* "Secondary Location" line and before contactIndex, joined and trimmed
locationOf(lines, contactIndex) ==
  trim(join(arraySlice(lines, findIndex(lines, SecondaryLocationLabel) + 1,
                       contactIndex)))

\* primary_secondary_location on the lines of the value
locationAndContacts(opts, obj, lines) ==
  [threw |-> FALSE,
   obj |-> Set(Set(obj, opts.contacts_field,
                   Arr(contactsOf(lines, findIndex(lines, ContactLabel)))),
               opts.location_field,
               Str(locationOf(lines, findIndex(lines, ContactLabel))))]

\* FIELD_TYPES.primary_secondary_location, the function it returns
PrimarySecondaryLocation(opts, obj, header, value) ==
  locationAndContacts(opts, obj, splitLines(value))

\* The options each processor of FIELD_TYPES asks for with requiredOption,
\* in the order in which it asks
RequiredOptions(kind) ==
  CASE kind = "trimmed" -> <<"field">>
    [] kind = "field_followed_by_table" -> <<"field_name", "table_name", "num_columns">>
    [] kind = "primary_secondary_location" -> <<"location_field", "contacts_field">>

\* The keys of FIELD_TYPES
ProcessorKinds == {"trimmed", "field_followed_by_table", "primary_secondary_location"}

\* requiredOption over the options a processor asks for: the first that is
\* not given, if any.  An option that is given is a non-empty name or a
\* positive number.
MissingOptions(fieldDef) ==
  {i \in 1..Len(RequiredOptions(fieldDef.type)) :
     RequiredOptions(fieldDef.type)[i] \notin DOMAIN fieldDef}

\* new RequiredOption(name): the constructor of a derived class assigns to
\* this without calling super, which raises a ReferenceError in its place.
RequiredOption(optionName) == ReferenceError("this")

\* FIELD_TYPES[fieldDef.type](opts) and the call of the processor it returns
applyProcessor(fieldDef, obj, header, value) ==
  IF fieldDef.type \notin ProcessorKinds
    THEN [threw |-> TRUE, error |-> TypeError("FIELD_TYPES[fieldDef.type]")]
  ELSE IF MissingOptions(fieldDef) # {}
    THEN [threw |-> TRUE,
          error |-> RequiredOption(
                      RequiredOptions(fieldDef.type)[SetMin(MissingOptions(fieldDef))])]
  ELSE IF fieldDef.type = "trimmed"
    THEN [threw |-> FALSE, obj |-> FieldTrimmed(fieldDef, obj, header, value)]
  ELSE IF fieldDef.type = "field_followed_by_table"
    THEN FieldFollowedByTable(fieldDef, obj, header, value)
  ELSE PrimarySecondaryLocation(fieldDef, obj, header, value)

\* FieldDictionary.process.  value is the raw property value: a text for a
\* header, the warnings block for _meta.  Yields the object, or the thrown
\* error.
process(d, obj, typeName, header, value) ==
  IF header = MetaKey THEN [threw |-> FALSE, obj |-> Set(obj, "_meta", value)]
  ELSE
    LET td == TypeNamed(d, typeName)
        inFields == {i \in 1..Len(td.fields) : td.fields[i].header = header}
        inByHeader == {i \in 1..Len(td.fields_by_header) :
                         td.fields_by_header[i].header = header}
    IN  IF inFields # {}
          THEN [threw |-> FALSE,
                obj |-> FieldTrimmed([field |-> td.fields[SetMin(inFields)].field],
                                     obj, header, value.s)]
        ELSE IF inByHeader # {}
          THEN applyProcessor(td.fields_by_header[SetMin(inByHeader)].def,
                              obj, header, value.s)
        ELSE [threw |-> TRUE,
              error |-> [kind |-> "no_processor", header |-> header,
                         type |-> typeName]]

----------------------------------------------------------------------------
(* Header Matcher *)

\* buildDictionaryRegex: the alternation of the escaped headers, in the
\* order of allHeaders.  The pattern is kept as its list of alternatives;
\* the join of no header is the empty pattern, which is the one alternative
\* of the empty text.
buildDictionaryRegex(d) ==
  IF allHeaders(d.types) = <<>> THEN << <<>> >> ELSE allHeaders(d.types)

\* One regexp.exec from lastIndex: the leftmost index at which an
\* alternative matches, and there the first alternative that does.
exec(regexp, s, lastIndex) ==
  LET at == {i \in lastIndex..Len(s) :
               \E k \in 1..Len(regexp) : MatchesAt(regexp[k], s, i)}
  IN  IF at = {} THEN [found |-> FALSE]
      ELSE LET i == SetMin(at)
               k == SetMin({j \in 1..Len(regexp) : MatchesAt(regexp[j], s, i)})
           IN  [found |-> TRUE, index |-> i, text |-> regexp[k]]

\* allMatches: exec repeated until it finds nothing; each exec resumes at
\* the end of the previous match.
RECURSIVE allMatchesFrom(_, _, _)
allMatchesFrom(regexp, s, lastIndex) ==
  LET m == exec(regexp, s, lastIndex)
  IN  IF ~m.found THEN <<>>
      ELSE <<m>> \o allMatchesFrom(regexp, s, m.index + Len(m.text))

\* allMatches on a regex whose lastIndex is 0
allMatches(regexp, s) == allMatchesFrom(regexp, s, 0)

\* regexp.lastIndex after allMatches as it would be if the loop ended at the
\* last match instead of at the exec that finds nothing
lastIndexAfterLastMatch(regexp, s, lastIndex) ==
  LET ms == allMatchesFrom(regexp, s, lastIndex)
  IN  IF ms = <<>> THEN 0 ELSE ms[Len(ms)].index + Len(ms[Len(ms)].text)

\* regexp.lastIndex after allMatches: the exec that finds nothing, which
\* ends the loop, sets it to 0
lastIndexAfter(regexp, s, lastIndex) == 0

StringRegion(value, isMatch) == [value |-> value, isMatch |-> isMatch]

\* The forEach of splitByMatches: results and cursor after the matches
RECURSIVE splitLoop(_, _, _, _)
splitLoop(matches, string, results, cursor) ==
  IF matches = <<>> THEN [results |-> results, cursor |-> cursor]
  ELSE LET match == Head(matches)
           before == IF cursor # match.index
                       THEN <<StringRegion(slice(string, cursor, match.index), FALSE)>>
                       ELSE <<>>
       IN  splitLoop(Tail(matches), string,
                     results \o before \o <<StringRegion(match.text, TRUE)>>,
                     match.index + Len(match.text))

\* splitByMatches as it would be without the region after the last match
splitByMatchesWithoutTail(regexp, lastIndex, string) ==
  splitLoop(allMatchesFrom(regexp, string, lastIndex), string, <<>>, 0).results

\* splitByMatches on the shared regex, whose lastIndex is where the last use
\* left it
splitByMatchesAt(regexp, lastIndex, string) ==
  LET r == splitLoop(allMatchesFrom(regexp, string, lastIndex), string, <<>>, 0)
  IN  IF r.cursor # Len(string) \/ Len(r.results) = 0
        THEN Append(r.results, StringRegion(slice(string, r.cursor, Len(string)), FALSE))
        ELSE r.results

\* splitByMatches on a regex whose lastIndex is 0
splitByMatches(regexp, string) == splitByMatchesAt(regexp, 0, string)

----------------------------------------------------------------------------
(* ObjectBuilder.  The builder is its object: the raw capture. *)

\* The texts of the two warnings.  A literal part of a message is kept as
\* one element, the inserted text character by character.
RepeatedValue(field, value) ==
  <<"Repeated value for '">> \o field \o <<"', '">> \o value \o <<"'">>

IgnoredHeader(text) == <<"Ignored header: '">> \o text \o <<"'">>

\* ObjectBuilder.warn, for the one warning type the parser uses
warn(object, message) ==
  LET old == Get(object, MetaKey)
      msgs == IF Truthy(old) THEN old.ignored_text ELSE <<>>
  IN  Set(object, MetaKey, MetaVal(Append(msgs, message)))

\* store as it would be without the repeated-value check
storeSilent(object, field, value) == Set(object, field, Str(value))

\* ObjectBuilder.store
store(object, field, value) ==
  LET held == Get(object, field)
      warned == IF Truthy(held)
                  THEN warn(object, RepeatedValue(field, held.s))
                  ELSE object
  IN  Set(warned, field, Str(value))

\* isEmpty as it would be if only an object without any key counted as empty
isEmptyNoKeys(object) == Keys(object) = <<>>

\* ObjectBuilder.isEmpty
isEmpty(object) == Keys(object) = <<>> \/ Keys(object) = <<MetaKey>>

----------------------------------------------------------------------------
(* Line Scanner.  The scanner of one parse is the ObjectBuilder under      *)
(* construction, the open field, and the history of the store calls made   *)
(* on that builder.                                                        *)

NoField == [open |-> FALSE]
OpenField(header, value) == [open |-> TRUE, header |-> header, value |-> value]

NewScanner == [object |-> <<>>, multilineField |-> NoField, stored |-> <<>>]

\* finishMultilineField
finishMultilineField(sc) ==
  [object |-> store(sc.object, sc.multilineField.header, sc.multilineField.value),
   multilineField |-> NoField,
   stored |-> Append(sc.stored, [header |-> sc.multilineField.header,
                                 value |-> sc.multilineField.value])]

\* if (multilineField) finishMultilineField()
FinishIfOpen(sc) == IF sc.multilineField.open THEN finishMultilineField(sc) ELSE sc

\* unmatchedPart as it would be without the test for blank text
unmatchedPartWarnsBlank(sc, part) ==
  IF sc.multilineField.open
    THEN [sc EXCEPT !.multilineField.value = @ \o part.value]
    ELSE [sc EXCEPT !.object = warn(@, IgnoredHeader(part.value))]

\* An unmatched part: accumulated into the open field, reported as ignored
\* text when no field is open and it is not blank, skipped otherwise.
unmatchedPart(sc, part) ==
  IF sc.multilineField.open
    THEN [sc EXCEPT !.multilineField.value = @ \o part.value]
  ELSE IF trim(part.value) # <<>>
    THEN [sc EXCEPT !.object = warn(@, IgnoredHeader(part.value))]
  ELSE sc

\* A matched part at the 1-based index i: the open field has ended, and a
\* field is opened whose value is the text of the part that follows.
matchedPart(sc, parts, i) ==
  LET done == FinishIfOpen(sc)
      value == IF i + 1 <= Len(parts) THEN parts[i + 1].value ELSE <<>>
  IN  [done EXCEPT !.multilineField = OpenField(parts[i].value, value)]

\* The for loop of the line handler over parts, from the 1-based index i;
\* a matched part also steps over the part that follows it.
RECURSIVE scanParts(_, _, _)
scanParts(sc, parts, i) ==
  IF i > Len(parts) THEN sc
  ELSE IF ~parts[i].isMatch
    THEN scanParts(unmatchedPart(sc, parts[i]), parts, i + 1)
  ELSE scanParts(matchedPart(sc, parts, i), parts, i + 2)

\* The line handler on a line that is no separator, on the shared regex
scanLineAt(regexp, lastIndex, sc, line) ==
  LET cont == IF sc.multilineField.open
                THEN [sc EXCEPT !.multilineField.value = Append(@, NL)]
                ELSE sc
  IN  scanParts(cont, splitByMatchesAt(regexp, lastIndex, line), 1)

\* The line handler on a line that is no separator, the regex being at 0
scanLine(regexp, sc, line) == scanLineAt(regexp, 0, sc, line)

----------------------------------------------------------------------------
(* Object Cook *)

\* objectType = null
NullType == ""

\* The forEach of identifyObjectType over the keys of the raw capture
RECURSIVE identifyLoop(_, _, _)
identifyLoop(d, headers, objectType) ==
  IF headers = <<>> THEN [threw |-> FALSE, type |-> objectType]
  ELSE
    LET header == Head(headers)
        types == typesForHeader(d.types, header)
    IN  IF Len(types) # 1 THEN identifyLoop(d, Tail(headers), objectType)
        ELSE IF objectType = NullType
          THEN identifyLoop(d, Tail(headers), types[1])
        ELSE IF objectType # types[1]
          THEN [threw |-> TRUE,
                error |-> [kind |-> "two_types", first |-> objectType,
                           second |-> types[1], header |-> header]]
        ELSE identifyLoop(d, Tail(headers), objectType)

\* identifyObjectType as it would be if a header declared by several types
\* voted for the first of them, the first vote deciding
identifyObjectTypeFirstDeclarer(rawFields, d) ==
  LET declared == {i \in 1..Len(rawFields) :
                     Len(typesForHeader(d.types, rawFields[i].key)) >= 1}
  IN  IF declared = {} THEN [threw |-> FALSE, type |-> NullType]
      ELSE [threw |-> FALSE,
            type |-> typesForHeader(d.types, rawFields[SetMin(declared)].key)[1]]

\* identifyObjectType as it would be if the first vote decided and a later
\* vote for another type were not looked at
identifyObjectTypeFirstVote(rawFields, d) ==
  LET voting == {i \in 1..Len(rawFields) :
                   Len(typesForHeader(d.types, rawFields[i].key)) = 1}
  IN  IF voting = {} THEN [threw |-> FALSE, type |-> NullType]
      ELSE [threw |-> FALSE,
            type |-> typesForHeader(d.types, rawFields[SetMin(voting)].key)[1]]

\* identifyObjectType
identifyObjectType(rawFields, d) == identifyLoop(d, Keys(rawFields), NullType)

\* The forEach of cookObject that runs dictionary.process on every entry
RECURSIVE processLoop(_, _, _, _)

\* The forEach after the call p of process on the first entry: a throw ends
\* it, otherwise it goes on with the entries after the first
processNext(d, entries, objectType, p) ==
  IF p.threw THEN p
  ELSE processLoop(d, Tail(entries), objectType, p.obj)

processLoop(d, entries, objectType, result) ==
  IF entries = <<>> THEN [threw |-> FALSE, obj |-> result]
  ELSE processNext(d, entries, objectType,
                   process(d, result, objectType, Head(entries).key,
                           Head(entries).val))

\* o[matchField] === result[matchField]: texts compare by content, two
\* absent properties are equal, and an array or a warnings block is equal
\* only to itself, which a property of another object never is.
StrictEquals(a, b) ==
  \/ a.t = "undef" /\ b.t = "undef"
  \/ a.t = "str" /\ b.t = "str" /\ a.s = b.s

\* fileObject as it would be if a record without belongs_to were put at the
\* front of the output
fileObjectOnFront(result, objectType, currObjects, d) ==
  LET owner == ownerOf(d, objectType)
      found == IF owner.declared
                 THEN {i \in 1..Len(currObjects) :
                         StrictEquals(Get(currObjects[i], owner.match_on),
                                      Get(result, owner.match_on))}
                 ELSE {}
  IN
  IF ~owner.declared
    THEN [threw |-> FALSE, type |-> objectType, result |-> result,
          filed |-> "top", objects |-> <<result>> \o currObjects]
  ELSE IF found = {}
    THEN [threw |-> FALSE, type |-> objectType, result |-> result,
          filed |-> "dropped", objects |-> currObjects]
  ELSE
    LET at == SetMin(found)
        held == Get(currObjects[at], owner.as)
        children == IF Truthy(held) THEN held ELSE Arr(<<>>)
    IN  [threw |-> FALSE, type |-> objectType, result |-> result,
         filed |-> "nested", owner |-> at,
         objects |-> [currObjects EXCEPT ![at] =
                        Set(currObjects[at], owner.as,
                            Arr(Append(children.items, result)))]]

\* fileObject as it would be if the last matching owner were taken
fileObjectLastOwner(result, objectType, currObjects, d) ==
  LET owner == ownerOf(d, objectType)
      found == IF owner.declared
                 THEN {i \in 1..Len(currObjects) :
                         StrictEquals(Get(currObjects[i], owner.match_on),
                                      Get(result, owner.match_on))}
                 ELSE {}
  IN
  IF ~owner.declared
    THEN [threw |-> FALSE, type |-> objectType, result |-> result,
          filed |-> "top", objects |-> Append(currObjects, result)]
  ELSE IF found = {}
    THEN [threw |-> FALSE, type |-> objectType, result |-> result,
          filed |-> "dropped", objects |-> currObjects]
  ELSE
    LET at == SetMax(found)
        held == Get(currObjects[at], owner.as)
        children == IF Truthy(held) THEN held ELSE Arr(<<>>)
    IN  [threw |-> FALSE, type |-> objectType, result |-> result,
         filed |-> "nested", owner |-> at,
         objects |-> [currObjects EXCEPT ![at] =
                        Set(currObjects[at], owner.as,
                            Arr(Append(children.items, result)))]]

\* fileObject as it would be if a record without an owner in the stream were
\* kept at top level
fileObjectOrphanOnTop(result, objectType, currObjects, d) ==
  LET owner == ownerOf(d, objectType)
      found == IF owner.declared
                 THEN {i \in 1..Len(currObjects) :
                         StrictEquals(Get(currObjects[i], owner.match_on),
                                      Get(result, owner.match_on))}
                 ELSE {}
  IN
  IF found = {}
    THEN [threw |-> FALSE, type |-> objectType, result |-> result,
          filed |-> "top", objects |-> Append(currObjects, result)]
  ELSE
    LET at == SetMin(found)
        held == Get(currObjects[at], owner.as)
        children == IF Truthy(held) THEN held ELSE Arr(<<>>)
    IN  [threw |-> FALSE, type |-> objectType, result |-> result,
         filed |-> "nested", owner |-> at,
         objects |-> [currObjects EXCEPT ![at] =
                        Set(currObjects[at], owner.as,
                            Arr(Append(children.items, result)))]]

\* The filing at the end of cookObject.  Yields the thrown error, or the
\* objects after filing with where the record went: "top", "nested" (with
\* the owner's index) or "dropped".
fileObject(result, objectType, currObjects, d) ==
  LET owner == ownerOf(d, objectType)
  IN
  IF ~owner.declared
    THEN [threw |-> FALSE, type |-> objectType, result |-> result,
          filed |-> "top", objects |-> Append(currObjects, result)]
  ELSE
    LET matchField == owner.match_on
        found == {i \in 1..Len(currObjects) :
                    StrictEquals(Get(currObjects[i], matchField),
                                 Get(result, matchField))}
    IN
    IF found = {}
      THEN [threw |-> FALSE, type |-> objectType, result |-> result,
            filed |-> "dropped", objects |-> currObjects]
    ELSE
      LET at == SetMin(found)
          ownerObj == currObjects[at]
          held == Get(ownerObj, owner.as)
          children == IF Truthy(held) THEN held ELSE Arr(<<>>)
      IN
      IF children.t # "arr"
        THEN [threw |-> TRUE,
              error |-> [kind |-> "type_error", property |-> owner.as]]
      ELSE [threw |-> FALSE, type |-> objectType, result |-> result,
            filed |-> "nested", owner |-> at,
            objects |-> [currObjects EXCEPT ![at] =
                           Set(ownerObj, owner.as,
                               Arr(Append(children.items, result)))]]

\* cookObject after its forEach: a throw of process leaves it, otherwise
\* the result is filed
cookFiled(cooked, objectType, currObjects, d) ==
  IF cooked.threw THEN [threw |-> TRUE, error |-> cooked.error]
  ELSE fileObject(cooked.obj, objectType, currObjects, d)

\* cookObject after identifyObjectType has given id
cookTyped(id, rawFields, currObjects, d) ==
  IF id.threw THEN [threw |-> TRUE, error |-> id.error]
  ELSE IF id.type = NullType
    THEN [threw |-> TRUE, error |-> [kind |-> "uncategorized", raw |-> rawFields]]
  ELSE cookFiled(processLoop(d, rawFields, id.type, <<>>), id.type, currObjects, d)

\* cookObject
cookObject(rawFields, currObjects, d) ==
  cookTyped(identifyObjectType(rawFields, d), rawFields, currObjects, d)

----------------------------------------------------------------------------
(* OrderParser.parse: the two event handlers *)

NotCooked(currObjects) ==
  [threw |-> FALSE, filed |-> "none", objects |-> currObjects]

\* separatorBranch as it would be if no fresh ObjectBuilder were started
separatorBranchKeepsBuilder(sc, currObjects, d) ==
  LET done == FinishIfOpen(sc)
      cook == ~isEmpty(done.object)
      out == IF cook THEN cookObject(done.object, currObjects, d)
                     ELSE NotCooked(currObjects)
  IN  [raw |-> done.object, cooked |-> cook, out |-> out, sc |-> done]

\* The separator branch of the 'line' handler.  When cookObject throws, the
\* handler is left before the fresh ObjectBuilder is made.
separatorBranch(sc, currObjects, d) ==
  LET done == FinishIfOpen(sc)
      cook == ~isEmpty(done.object)
      out == IF cook THEN cookObject(done.object, currObjects, d)
                     ELSE NotCooked(currObjects)
  IN  [raw |-> done.object, cooked |-> cook, out |-> out,
       sc |-> IF out.threw THEN done ELSE NewScanner]

\* closeHandler as it would be if the open field were not finished
closeHandlerLeavesField(sc, currObjects, d) ==
  LET cook == ~isEmpty(sc.object)
      out == IF cook THEN cookObject(sc.object, currObjects, d)
                     ELSE NotCooked(currObjects)
  IN  [raw |-> sc.object, cooked |-> cook, out |-> out, sc |-> sc]

\* The 'close' handler up to the call of resolve
closeHandler(sc, currObjects, d) ==
  LET done == FinishIfOpen(sc)
      cook == ~isEmpty(done.object)
      out == IF cook THEN cookObject(done.object, currObjects, d)
                     ELSE NotCooked(currObjects)
  IN  [raw |-> done.object, cooked |-> cook, out |-> out, sc |-> done]

----------------------------------------------------------------------------
(* OrderParser.parse as a function of the lines of its input *)

NoError == [raised |-> FALSE]
Raised(e) == [raised |-> TRUE, error |-> e]

Pending == [state |-> "pending"]
Resolved(value) == [state |-> "resolved", value |-> value]
Rejected(e) == [state |-> "rejected", error |-> e]

\* The local state of a parse() call before its first event
NewParse == [sc |-> NewScanner, objects |-> <<>>, uncaught |-> NoError]

\* The local state of a parse after an end of record e: the objects are
\* those after the filing, or an exception has left the handler
endOfRecord(st, e) ==
  IF e.out.threw
    THEN [sc |-> e.sc, objects |-> st.objects, uncaught |-> Raised(e.out.error)]
    ELSE [sc |-> e.sc, objects |-> e.out.objects, uncaught |-> NoError]

\* One 'line' event on the local state of a parse, the shared regex being
\* at lastIndex
lineEventAt(d, lastIndex, st, line) ==
  IF recordSeparator(d, line)
    THEN endOfRecord(st, separatorBranch(st.sc, st.objects, d))
    ELSE [st EXCEPT !.sc = scanLineAt(buildDictionaryRegex(d), lastIndex, st.sc, line)]

\* One 'line' event of a parse that runs alone
lineEvent(d, st, line) == lineEventAt(d, 0, st, line)

\* The 'line' events of the lines of an input, up to an exception that
\* leaves the handler
RECURSIVE lineEvents(_, _, _)
lineEvents(d, st, lines) ==
  IF lines = <<>> \/ st.uncaught.raised THEN st
  ELSE lineEvents(d, lineEvent(d, st, Head(lines)), Tail(lines))

\* The promise after the 'close' handler: resolve(objects) is reached
\* unless an exception has left the handler
resolveUnlessThrown(st) ==
  IF st.uncaught.raised THEN Pending ELSE Resolved(st.objects)

\* parse(text): the promise after the 'line' events of the lines of the
\* text and the 'close' event
parse(d, lines) ==
  LET st == lineEvents(d, NewParse, lines)
  IN  IF st.uncaught.raised THEN Pending
      ELSE resolveUnlessThrown(endOfRecord(st, closeHandler(st.sc, st.objects, d)))

----------------------------------------------------------------------------
(* OrderParser.parse: one parse as a state machine *)

VARIABLES
  dictionary,     \* the dictionary the OrderParser was constructed from
  objects,        \* let objects: the output sequence
  currObject,     \* currObject.object: the raw capture under construction
  multilineField, \* the open field, or NoField for null
  promise,        \* the promise parse returned
  input,          \* the readline interface: "open" or "closed"
  uncaught,       \* the exception that left an event handler, if any
  nlines,         \* history: number of 'line' events so far
  segLines,       \* history: the lines since the last separator
  stored,         \* history: the store calls on currObject
  lastEnd,        \* history: the last separator or close event
  headerSegs,     \* history: ended segments that held a header
  drops,          \* history: records discarded for want of an owner
  resolves,       \* history: number of calls of resolve
  fed,            \* history: the lines of the 'line' events so far
  lastIndex,      \* this.regex.lastIndex, between two events
  parses,         \* the parse() calls in flight beside this one
  matching        \* the allMatches call a 'line' handler is in, if any

vars == <<dictionary, objects, currObject, multilineField, promise, input,
          uncaught, nlines, segLines, stored, lastEnd, headerSegs, drops,
          resolves, fed, lastIndex, parses, matching>>

NoCall == [busy |-> FALSE]

NoEnd == [happened |-> FALSE]

\* this.regex, built once by the constructor
regex == buildDictionaryRegex(dictionary)

Scanner == [object |-> currObject, multilineField |-> multilineField,
            stored |-> stored]

\* Does a line of the segment hold a header
SegHasHeader(regexp, seg) ==
  \E i \in 1..Len(seg) :
    LET parts == splitByMatches(regexp, seg[i])
    IN  \E j \in 1..Len(parts) : parts[j].isMatch

\* Events are delivered while the stream is open and the process alive, one
\* handler at a time: an exception that leaves an event handler is caught by
\* nobody, and no event is handled while a handler is in a loop.
Running == input = "open" /\ ~uncaught.raised /\ ~matching.busy

\* new OrderParser(d): the dictionary is wrapped and the regex built;
\* nothing of fields_by_header is looked at.
OrderParser(d) ==
  [threw |-> FALSE, dictionary |-> d, regex |-> buildDictionaryRegex(d)]

\* The start of parse(): an empty output, a fresh ObjectBuilder, no field
\* open, the promise pending
ParseStart ==
  /\ ~OrderParser(dictionary).threw
  /\ objects = <<>>
  /\ currObject = <<>>
  /\ multilineField = NoField
  /\ promise = Pending
  /\ input = "open"
  /\ uncaught = NoError
  /\ nlines = 0
  /\ segLines = <<>>
  /\ stored = <<>>
  /\ lastEnd = NoEnd
  /\ headerSegs = 0
  /\ drops = 0
  /\ resolves = 0
  /\ matching = NoCall
  /\ fed = <<>>
  /\ lastIndex = 0

Init ==
  /\ dictionary \in Dictionaries
  /\ ParseStart
  /\ parses = <<>>

\* The history of an end of record
EndEvent(event, e) ==
  [happened |-> TRUE, event |-> event, seg |-> segLines, before |-> objects,
   raw |-> e.raw, cooked |-> e.cooked, out |-> e.out]

\* The 'line' handler on a record separator
OnLineSeparator ==
  /\ Running
  /\ nlines < LineBudget(dictionary)
  /\ \E line \in InputLines(dictionary) :
       /\ recordSeparator(dictionary, line)
       /\ LET e == separatorBranch(Scanner, objects, dictionary)
          IN  /\ lastEnd' = EndEvent("separator", e)
              /\ currObject' = e.sc.object
              /\ multilineField' = e.sc.multilineField
              /\ stored' = e.sc.stored
              /\ headerSegs' = headerSegs + (IF SegHasHeader(regex, segLines) THEN 1 ELSE 0)
              /\ IF e.out.threw
                   THEN /\ uncaught' = Raised(e.out.error)
                        /\ UNCHANGED <<objects, segLines, drops>>
                   ELSE /\ objects' = e.out.objects
                        /\ segLines' = <<>>
                        /\ drops' = drops + (IF e.out.filed = "dropped" THEN 1 ELSE 0)
                        /\ UNCHANGED uncaught
       /\ fed' = Append(fed, line)
  /\ nlines' = nlines + 1
  /\ UNCHANGED <<dictionary, promise, input, resolves, lastIndex, parses,
                 matching>>

\* The 'line' handler on any other line
OnLineText ==
  /\ Running
  /\ nlines < LineBudget(dictionary)
  /\ \E line \in InputLines(dictionary) :
       /\ ~recordSeparator(dictionary, line)
       /\ LET sc == scanLineAt(regex, lastIndex, Scanner, line)
          IN  /\ currObject' = sc.object
              /\ multilineField' = sc.multilineField
              /\ stored' = sc.stored
       /\ lastIndex' = lastIndexAfter(regex, line, lastIndex)
       /\ segLines' = Append(segLines, line)
       /\ fed' = Append(fed, line)
  /\ nlines' = nlines + 1
  /\ UNCHANGED <<dictionary, objects, promise, input, uncaught, lastEnd,
                 headerSegs, drops, resolves, parses,
                 matching>>

\* The 'close' handler
OnClose ==
  /\ Running
  /\ input' = "closed"
  /\ LET e == closeHandler(Scanner, objects, dictionary)
     IN  /\ lastEnd' = EndEvent("close", e)
         /\ currObject' = e.sc.object
         /\ multilineField' = e.sc.multilineField
         /\ stored' = e.sc.stored
         /\ headerSegs' = headerSegs + (IF SegHasHeader(regex, segLines) THEN 1 ELSE 0)
         /\ IF e.out.threw
              THEN /\ uncaught' = Raised(e.out.error)
                   /\ UNCHANGED <<objects, promise, drops, resolves>>
              ELSE /\ objects' = e.out.objects
                   /\ promise' = Resolved(e.out.objects)
                   /\ resolves' = resolves + 1
                   /\ drops' = drops + (IF e.out.filed = "dropped" THEN 1 ELSE 0)
                   /\ UNCHANGED uncaught
  /\ UNCHANGED <<dictionary, nlines, segLines, fed, lastIndex, parses,
                 matching>>

Next == OnLineSeparator \/ OnLineText \/ OnClose

Spec == Init /\ [][Next]_vars

\* The parses under one dictionary
InitOrder == Init /\ dictionary = DictOrder
InitOwner == Init /\ dictionary = DictOwner
InitShared == Init /\ dictionary = DictShared

SpecOrder == InitOrder /\ [][Next]_vars
SpecOwner == InitOwner /\ [][Next]_vars
SpecShared == InitShared /\ [][Next]_vars

----------------------------------------------------------------------------
(* Two parse() calls on one OrderParser, as the requests of POST /convert   *)
(* make them: each has its own objects, ObjectBuilder and open field; the   *)
(* dictionary and the regex are those of the parser; the events of the two  *)
(* streams come in any order, one handler at a time; an exception that      *)
(* leaves a handler ends the process.                                       *)

LinesTwo ==
  { <<"A", ":", "1">>,
    <<"B", ":", "2">>,
    <<"_", "_">> }

\* The number of lines each of two parses is followed for
TwoBudget == MaxLines - 3

\* A parse() call in flight: its local state, its promise, its stream, and
\* as history the lines it was given and whether a handler of its own threw
ParseCall ==
  [st |-> NewParse, promise |-> Pending, input |-> "open", lines |-> <<>>,
   threw |-> FALSE]

\* A parse() call after a 'line' event that left its local state st
afterLine(call, st, line) ==
  [call EXCEPT !.st = st, !.lines = Append(@, line), !.threw = st.uncaught.raised]

\* A parse() call after a 'close' event that left its local state st
afterClose(call, st) ==
  [call EXCEPT !.st = st, !.input = "closed", !.threw = st.uncaught.raised,
               !.promise = resolveUnlessThrown(st)]

\* The 'line' handler of the parse p
ParseLine(p) ==
  /\ ~uncaught.raised
  /\ parses[p].input = "open"
  /\ Len(parses[p].lines) < TwoBudget
  /\ \E line \in LinesTwo :
       /\ parses' = [parses EXCEPT ![p] =
                       afterLine(@, lineEventAt(dictionary, lastIndex, @.st, line),
                                 line)]
       /\ lastIndex' = IF recordSeparator(dictionary, line)
                         THEN lastIndex
                         ELSE lastIndexAfter(regex, line, lastIndex)
  /\ uncaught' = parses'[p].st.uncaught
  /\ UNCHANGED <<dictionary, objects, currObject, multilineField, promise,
                 input, nlines, segLines, stored, lastEnd, headerSegs, drops,
                 resolves, fed,
                 matching>>

\* The 'close' handler of the parse p
ParseClose(p) ==
  /\ ~uncaught.raised
  /\ parses[p].input = "open"
  /\ parses' = [parses EXCEPT ![p] =
                  afterClose(@, endOfRecord(@.st, closeHandler(@.st.sc, @.st.objects,
                                                               dictionary)))]
  /\ uncaught' = parses'[p].st.uncaught
  /\ UNCHANGED <<dictionary, objects, currObject, multilineField, promise,
                 input, nlines, segLines, stored, lastEnd, headerSegs, drops,
                 resolves, fed, lastIndex,
                 matching>>

NextTwo ==
  \/ \E p \in DOMAIN parses : ParseLine(p)
  \/ \E p \in DOMAIN parses : ParseClose(p)

InitTwo ==
  /\ dictionary = DictShared
  /\ ParseStart
  /\ parses = <<ParseCall, ParseCall>>

SpecTwo == InitTwo /\ [][NextTwo]_vars

----------------------------------------------------------------------------
(* The 'line' handler followed through the loop of allMatches: the call,   *)
(* each regexp.exec, and after the exec that finds nothing the rest of the *)
(* handler.  No other event is handled while the loop runs.                *)

\* The 'line' handler on a line that is no separator, up to the call of
\* allMatches
MatchCall ==
  /\ Running
  /\ nlines < LineBudget(dictionary)
  /\ \E line \in InputLines(dictionary) :
       /\ ~recordSeparator(dictionary, line)
       /\ matching' = [busy |-> TRUE, s |-> line, results |-> <<>>]
       /\ fed' = Append(fed, line)
  /\ nlines' = nlines + 1
  /\ UNCHANGED <<dictionary, objects, currObject, multilineField, promise,
                 input, uncaught, segLines, stored, lastEnd, headerSegs, drops,
                 resolves, lastIndex, parses>>

\* A regexp.exec(s) of the while loop that finds a match: the match is
\* pushed and lastIndex is its end.  Matches after the first MaxMatches are
\* not kept in the model.
MatchExec ==
  /\ matching.busy
  /\ exec(regex, matching.s, lastIndex).found
  /\ matching' = [matching EXCEPT !.results =
                    IF Len(@) < MaxMatches
                      THEN Append(@, exec(regex, matching.s, lastIndex))
                      ELSE @]
  /\ lastIndex' = exec(regex, matching.s, lastIndex).index
                    + Len(exec(regex, matching.s, lastIndex).text)
  /\ UNCHANGED <<dictionary, objects, currObject, multilineField, promise,
                 input, uncaught, nlines, segLines, stored, lastEnd,
                 headerSegs, drops, resolves, fed, parses>>

\* The regexp.exec(s) that finds nothing: lastIndex is 0, the loop ends,
\* allMatches returns and the handler goes on to its end
MatchReturn ==
  /\ matching.busy
  /\ ~exec(regex, matching.s, lastIndex).found
  /\ matching' = NoCall
  /\ lastIndex' = 0
  /\ LET sc == scanLineAt(regex, 0, Scanner, matching.s)
     IN  /\ currObject' = sc.object
         /\ multilineField' = sc.multilineField
         /\ stored' = sc.stored
  /\ segLines' = Append(segLines, matching.s)
  /\ UNCHANGED <<dictionary, objects, promise, input, uncaught, nlines,
                 lastEnd, headerSegs, drops, resolves, fed, parses>>

NextMatch ==
  MatchCall \/ MatchExec \/ MatchReturn \/ OnLineSeparator \/ OnClose

InitMatch ==
  /\ dictionary \in {DictPlain, DictEmptyHeader, DictNoHeaders}
  /\ ParseStart
  /\ parses = <<>>

\* The loop of a handler that has begun runs on: the event loop is in it
SpecMatch == InitMatch /\ [][NextMatch]_vars /\ WF_vars(MatchExec)

InitTable == dictionary = DictTable /\ ParseStart /\ parses = <<>>
InitConfig ==
  dictionary \in {DictNoOption, DictUnknownKind} /\ ParseStart /\ parses = <<>>
InitCustom ==
  /\ dictionary \in {DictCustom, DictCustomOpen, DictPlain}
  /\ ParseStart
  /\ parses = <<>>
InitThree == dictionary = DictThree /\ ParseStart /\ parses = <<>>
InitLocation == dictionary = DictLocation /\ ParseStart /\ parses = <<>>
InitAs == dictionary = DictAs /\ ParseStart /\ parses = <<>>
InitPrefix ==
  dictionary \in {DictShortFirst, DictLongFirst} /\ ParseStart /\ parses = <<>>
InitBy ==
  dictionary \in {DictBy, DictOptional} /\ ParseStart /\ parses = <<>>

SpecTable == InitTable /\ [][Next]_vars
SpecConfig == InitConfig /\ [][Next]_vars
SpecCustom == InitCustom /\ [][Next]_vars
SpecThree == InitThree /\ [][Next]_vars
SpecLocation == InitLocation /\ [][Next]_vars
SpecBy == InitBy /\ [][Next]_vars
SpecPrefix == InitPrefix /\ [][Next]_vars
SpecAs == InitAs /\ [][Next]_vars

----------------------------------------------------------------------------
(* What the properties below speak of *)

\* The scanner after the lines of a segment, from a fresh ObjectBuilder
RECURSIVE ScanSegment(_, _, _)
ScanSegment(regexp, sc, seg) ==
  IF seg = <<>> THEN sc
  ELSE ScanSegment(regexp, scanLine(regexp, sc, Head(seg)), Tail(seg))

\* The regions of a segment in input order: those of each line, and the
\* newline that joins two lines as an unmatched region of its own.
RECURSIVE SegRegions(_, _)
SegRegions(regexp, seg) ==
  IF seg = <<>> THEN <<>>
  ELSE splitByMatches(regexp, Head(seg))
       \o (IF Len(seg) > 1 THEN <<StringRegion(<<NL>>, FALSE)>> ELSE <<>>)
       \o SegRegions(regexp, Tail(seg))

\* The texts of the regions a..b, joined
RECURSIVE JoinRegions(_, _, _)
JoinRegions(rs, a, b) ==
  IF a > b THEN <<>> ELSE rs[a].value \o JoinRegions(rs, a + 1, b)

Headers(rs) == {k \in 1..Len(rs) : rs[k].isMatch}

\* The index of the next header after the region k, or one past the end
NextHeader(rs, k) ==
  LET later == {m \in Headers(rs) : m > k}
  IN  IF later = {} THEN Len(rs) + 1 ELSE SetMin(later)

\* The text from the header at k up to the next header or the segment's end
TextAfter(rs, k) == JoinRegions(rs, k + 1, NextHeader(rs, k) - 1)

\* Is the header at k the last occurrence of its header in the segment
LastOccurrence(rs, k) ==
  \A m \in Headers(rs) : m > k => rs[m].value # rs[k].value

\* The field a type stores a scalar header under
FieldFor(d, typeName, header) ==
  LET td == TypeNamed(d, typeName)
      inFields == {i \in 1..Len(td.fields) : td.fields[i].header = header}
      inByHeader == {i \in 1..Len(td.fields_by_header) :
                       td.fields_by_header[i].header = header}
  IN  IF inFields # {} THEN td.fields[SetMin(inFields)].field
      ELSE td.fields_by_header[SetMin(inByHeader)].def.field

\* An end of record at which a record was cooked without error
CookedRecord == lastEnd.happened /\ lastEnd.cooked /\ ~lastEnd.out.threw

\* Is a header of the segment directly followed by another header
AdjacentHeaders(rs) == \E k \in Headers(rs) : k + 1 \in Headers(rs)

----------------------------------------------------------------------------
(* C1 *)

\* C1: in a cooked record, the value of every scalar field is the text that
\* follows the (last occurrence of the) header up to the next recognized
\* header, separator or end of input, newline-joined and trimmed.
ScalarFieldIsTextUpToNextHeader ==
  CookedRecord =>
    LET rs == SegRegions(regex, lastEnd.seg)
    IN  \A k \in Headers(rs) :
          LastOccurrence(rs, k) =>
            Get(lastEnd.out.result,
                FieldFor(dictionary, lastEnd.out.type, rs[k].value))
              = Str(trim(TextAfter(rs, k)))

\* The same, for the segments in which no header directly follows another
ScalarFieldApartFromAdjacentHeaders ==
  (CookedRecord /\ ~AdjacentHeaders(SegRegions(regex, lastEnd.seg)))
    => ScalarFieldIsTextUpToNextHeader

\* The case of the test suite: a multi-line value, then a second header
\* after leading blanks, then its own multi-line value.
MultilineFieldsCooked ==
  /\ CookedRecord
  /\ dictionary = DictOrder
  /\ Len(lastEnd.seg) >= 4
  /\ Get(lastEnd.out.result, "foo") = Str(<<"1", NL, "L", "i", "n", "e", " ", "2">>)
  /\ Get(lastEnd.out.result, "bar") = Str(<<"L", "i", "n", "e", " ", "2">>)

----------------------------------------------------------------------------
(* C2 *)

\* The fields a type can give a record: one per declared header
FieldsOfSegment(d, typeName, rs) ==
  {FieldFor(d, typeName, rs[k].value) : k \in Headers(rs)}

\* The warnings the lines of a segment can give: ignored text of one of its
\* unmatched regions, or a repeated value of one of its headers.
FromSegment(msg, rs) ==
  \/ \E k \in 1..Len(rs) : ~rs[k].isMatch /\ msg = IgnoredHeader(rs[k].value)
  \/ \E k \in Headers(rs) :
       /\ Len(msg) >= Len(rs[k].value) + 1
       /\ SubSeq(msg, 1, Len(rs[k].value) + 1)
            = <<"Repeated value for '">> \o rs[k].value

\* C2: records never merge.  The capture under construction and the open
\* field are those a fresh ObjectBuilder gets from the lines since the last
\* separator alone; the capture an end of record finalizes is the one of the
\* lines of its segment alone; every field and warning of the record cooked
\* from it comes from those lines; and after a separator the ObjectBuilder is
\* empty with no field open.
RecordsNeverMerge ==
  /\ Running =>
       LET sc == ScanSegment(regex, NewScanner, segLines)
       IN  /\ currObject = sc.object
           /\ multilineField = sc.multilineField
  /\ lastEnd.happened =>
       lastEnd.raw = FinishIfOpen(ScanSegment(regex, NewScanner, lastEnd.seg)).object
  /\ CookedRecord =>
       LET rs == SegRegions(regex, lastEnd.seg)
           r == lastEnd.out.result
       IN  /\ \A i \in 1..Len(r) :
                \/ r[i].key = "_meta"
                \/ r[i].key \in FieldsOfSegment(dictionary, lastEnd.out.type, rs)
           /\ HasKey(r, "_meta") =>
                \A i \in 1..Len(Get(r, "_meta").ignored_text) :
                  FromSegment(Get(r, "_meta").ignored_text[i], rs)
  /\ (Running /\ segLines = <<>>) =>
       currObject = <<>> /\ multilineField = NoField

\* A second record is under construction after a first one was cooked at a
\* separator, both with warnings.
SecondRecordAfterSeparator ==
  /\ Running
  /\ CookedRecord
  /\ lastEnd.event = "separator"
  /\ HasKey(lastEnd.out.result, "_meta")
  /\ multilineField.open
  /\ HasKey(currObject, MetaKey)
  /\ Len(objects) >= 1

----------------------------------------------------------------------------
(* C3 *)

\* The children filed in the arrays of a record
RECURSIVE Children(_)
Children(record) ==
  IF record = <<>> THEN 0
  ELSE (IF Head(record).val.t = "arr" THEN Len(Head(record).val.items) ELSE 0)
       + Children(Tail(record))

\* The records in the output: those at top level and their children
RECURSIVE RecordCount(_)
RecordCount(objs) ==
  IF objs = <<>> THEN 0
  ELSE 1 + Children(Head(objs)) + RecordCount(Tail(objs))

\* C3: parse resolves exactly once, only after the input closed, and every
\* close that raises no error resolves it with the output sequence; before
\* resolving the open field is finished and the capture under construction is
\* cooked, so that the record of a last segment that holds a header is in
\* the result (as the last top-level record when it has no owner) with a
\* field for every header that was stored, and every segment that held a
\* header has given a record or was dropped for want of an owner.
ResolvesOnceAfterClose ==
  /\ resolves <= 1
  /\ (input = "closed" /\ ~uncaught.raised) => promise.state = "resolved"
  /\ promise.state = "resolved" =>
       /\ input = "closed"
       /\ resolves = 1
       /\ promise.value = objects
       /\ lastEnd.event = "close"
       /\ ~multilineField.open
       /\ RecordCount(objects) + drops = headerSegs
       /\ SegHasHeader(regex, lastEnd.seg) =>
            /\ lastEnd.cooked
            /\ stored # <<>>
            /\ \A i \in 1..Len(stored) :
                 HasKey(lastEnd.out.result,
                        FieldFor(dictionary, lastEnd.out.type, stored[i].header))
            /\ lastEnd.out.filed = "top" =>
                 objects = Append(lastEnd.before, lastEnd.out.result)

\* An input of two records that does not end with a separator has resolved
ResolvedWithLastRecord ==
  /\ promise.state = "resolved"
  /\ lastEnd.cooked
  /\ lastEnd.seg # <<>>
  /\ Len(objects) = 2
  /\ objects[2] = lastEnd.out.result

----------------------------------------------------------------------------
(* C4 *)

\* C4: a fatal error raised while cooking a record rejects the promise that
\* parse returned with that error.
FatalErrorRejectsPromise ==
  (lastEnd.happened /\ lastEnd.out.threw) => promise = Rejected(lastEnd.out.error)

----------------------------------------------------------------------------
(* C5 *)

\* The types that declare a header
DeclaringTypes(d, header) ==
  {d.types[i].name : i \in {j \in 1..Len(d.types) : DeclaresHeader(d.types[j], header)}}

\* The types voted for: those that alone declare a captured header
Votes(d, raw) ==
  UNION {DeclaringTypes(d, raw[i].key) :
           i \in {j \in 1..Len(raw) : Cardinality(DeclaringTypes(d, raw[j].key)) = 1}}

\* C5: a capture handed to cookObject gets the one type its headers vote
\* for; votes for different types fail the cooking, and so does a capture
\* none of whose headers votes.
ClassificationByVotes ==
  (lastEnd.happened /\ lastEnd.cooked) =>
    LET votes == Votes(dictionary, lastEnd.raw)
    IN  /\ Cardinality(votes) = 1 =>
             ~lastEnd.out.threw /\ votes = {lastEnd.out.type}
        /\ Cardinality(votes) > 1 =>
             lastEnd.out.threw /\ lastEnd.out.error.kind = "two_types"
        /\ votes = {} =>
             lastEnd.out.threw /\ lastEnd.out.error.kind = "uncategorized"

\* A capture that starts with the shared header and holds one header of
\* Beta's own was classified
SharedHeaderDoesNotVote ==
  /\ CookedRecord
  /\ Keys(lastEnd.raw) = <<H_S, H_B>>
  /\ lastEnd.out.type = "Beta"

----------------------------------------------------------------------------
(* C6 *)

\* The top-level records that own a record under a belongs_to rule
Owners(owner, record, currObjects) ==
  {i \in 1..Len(currObjects) :
     StrictEquals(Get(currObjects[i], owner.match_on),
                  Get(record, owner.match_on))}

\* The children a record holds under a property
ChildrenOf(record, as) ==
  IF HasKey(record, as) /\ Get(record, as).t = "arr"
    THEN Get(record, as).items
    ELSE <<>>

\* The entries of a record other than one property
Without(record, as) == SelectSeq(record, LAMBDA e : e.key # as)

\* C6: a cooked record whose type declares no belongs_to is appended to the
\* top-level sequence and to nothing else; one whose type declares
\* belongs_to and that has an owner among the top-level records produced
\* before it is appended to the `as` array of the first such record, whose
\* other properties and all other top-level records stay as they were, and
\* is not appended to the top-level sequence.
FiledOnceUnderFirstOwner ==
  CookedRecord =>
    LET owner == ownerOf(dictionary, lastEnd.out.type)
        record == lastEnd.out.result
        was == lastEnd.before
    IN  IF ~owner.declared THEN objects = Append(was, record)
        ELSE Owners(owner, record, was) # {} =>
               LET first == SetMin(Owners(owner, record, was))
               IN  /\ Len(objects) = Len(was)
                   /\ \A i \in 1..Len(was) : i # first => objects[i] = was[i]
                   /\ ChildrenOf(objects[first], owner.as)
                        = Append(ChildrenOf(was[first], owner.as), record)
                   /\ Without(objects[first], owner.as)
                        = Without(was[first], owner.as)

\* A child was filed when two top-level records had its match value
ChildHasTwoOwners ==
  /\ CookedRecord
  /\ lastEnd.out.filed = "nested"
  /\ Cardinality(Owners(ownerOf(dictionary, lastEnd.out.type),
                        lastEnd.out.result, lastEnd.before)) = 2

----------------------------------------------------------------------------
(* C7 *)

\* An end of record whose capture is a child without an owner in the stream
OrphanChild ==
  /\ lastEnd.happened
  /\ lastEnd.cooked
  /\ LET id == identifyObjectType(lastEnd.raw, dictionary)
     IN  /\ ~id.threw
         /\ id.type # NullType
         /\ ownerOf(dictionary, id.type).declared
         /\ LET cooked == processLoop(dictionary, lastEnd.raw, id.type, <<>>)
            IN  /\ ~cooked.threw
                /\ Owners(ownerOf(dictionary, id.type), cooked.obj,
                          lastEnd.before) = {}

\* C7: a child without an owner among the top-level records produced before
\* it is dropped: no error is raised, the output is what it was, and the
\* parse goes on (after a separator with a fresh ObjectBuilder, after the
\* close by resolving); every other segment that held a header still gives
\* its record.
OrphanChildIsDropped ==
  /\ OrphanChild =>
       /\ ~lastEnd.out.threw
       /\ ~uncaught.raised
       /\ objects = lastEnd.before
       /\ lastEnd.event = "separator" =>
            /\ Running
            /\ segLines = <<>> => currObject = <<>> /\ ~multilineField.open
       /\ lastEnd.event = "close" => promise = Resolved(lastEnd.before)
  /\ ~uncaught.raised => RecordCount(objects) + drops = headerSegs

\* A child was dropped although top-level records exist, and the parse goes on
OrphanDroppedAmongRecords ==
  /\ OrphanChild
  /\ lastEnd.before # <<>>
  /\ lastEnd.event = "separator"
  /\ drops = 1

----------------------------------------------------------------------------
(* C8 *)

\* The warnings of a raw capture or a record, under the key of its _meta
Warnings(obj, metaKey) ==
  IF HasKey(obj, metaKey) THEN Get(obj, metaKey).ignored_text ELSE <<>>

IsRepeatedValue(msg) == msg[1] = "Repeated value for '"
IsIgnoredHeader(msg) == msg[1] = "Ignored header: '"

\* The store calls before the i-th that were for the same header
EarlierStores(log, i) == {j \in 1..(i - 1) : log[j].header = log[i].header}

\* The warnings the store calls 1..n of a log are to give: one for every
\* call for a header that was stored before, with the value stored last.
RECURSIVE RepeatedFor(_, _)
RepeatedFor(log, n) ==
  IF n = 0 THEN <<>>
  ELSE RepeatedFor(log, n - 1)
       \o (IF EarlierStores(log, n) = {} THEN <<>>
           ELSE <<RepeatedValue(log[n].header,
                                log[SetMax(EarlierStores(log, n))].value)>>)

\* C8: the repeated-value warnings of the capture under construction are,
\* in order, one for every store call for a header the capture already held,
\* each with the header and the value held until then, and none for a header
\* stored for the first time; every header holds the value stored last.
RepeatedValueWarned ==
  /\ SelectSeq(Warnings(currObject, MetaKey), IsRepeatedValue)
       = RepeatedFor(stored, Len(stored))
  /\ \A i \in 1..Len(stored) :
       (\A j \in (i + 1)..Len(stored) : stored[j].header # stored[i].header)
         => Get(currObject, stored[i].header) = Str(stored[i].value)

\* One header was stored three times in a record
HeaderStoredThreeTimes ==
  /\ Len(stored) = 3
  /\ \A i \in 1..3 : stored[i].header = H_Foo
  /\ Len(SelectSeq(Warnings(currObject, MetaKey), IsRepeatedValue)) = 2

----------------------------------------------------------------------------
(* C9 *)

\* The regions of the lines of a segment, without the joining newlines
RECURSIVE SegParts(_, _)
SegParts(regexp, seg) ==
  IF seg = <<>> THEN <<>>
  ELSE splitByMatches(regexp, Head(seg)) \o SegParts(regexp, Tail(seg))

\* The warnings for the non-blank regions among the first n
RECURSIVE IgnoredFor(_, _)
IgnoredFor(rs, n) ==
  IF n = 0 THEN <<>>
  ELSE IgnoredFor(rs, n - 1)
       \o (IF trim(rs[n].value) # <<>> THEN <<IgnoredHeader(rs[n].value)>> ELSE <<>>)

\* The warnings for the text of a segment that precedes its first header
IgnoredBeforeFirstHeader(regexp, seg) ==
  LET rs == SegParts(regexp, seg)
  IN  IgnoredFor(rs, NextHeader(rs, 0) - 1)

\* C9: the ignored-text warnings of a capture are, in order, one for every
\* non-blank unmatched region before the first header of its segment and
\* none for a blank one; they are the ignored-text warnings of the record
\* cooked from it; and while the segment holds no header the capture holds
\* no field and no field is open.
IgnoredTextWarned ==
  /\ Running =>
       /\ SelectSeq(Warnings(currObject, MetaKey), IsIgnoredHeader)
            = IgnoredBeforeFirstHeader(regex, segLines)
       /\ ~SegHasHeader(regex, segLines) =>
            isEmpty(currObject) /\ ~multilineField.open
  /\ lastEnd.happened =>
       SelectSeq(Warnings(lastEnd.raw, MetaKey), IsIgnoredHeader)
         = IgnoredBeforeFirstHeader(regex, lastEnd.seg)
  /\ CookedRecord =>
       SelectSeq(Warnings(lastEnd.out.result, "_meta"), IsIgnoredHeader)
         = IgnoredBeforeFirstHeader(regex, lastEnd.seg)

\* A record was cooked from a segment that starts with a line of free text
\* and has free text before its first header
TwoIgnoredTextsCooked ==
  /\ CookedRecord
  /\ Len(SelectSeq(Warnings(lastEnd.out.result, "_meta"), IsIgnoredHeader)) = 2

----------------------------------------------------------------------------
(* C10 *)

\* C10: cookObject is called at an end of record exactly when the segment
\* held a header; the end of a segment without one leaves the output as it
\* was and raises no error; and a parse in which no segment held a header
\* resolves to the empty sequence.
EmptyBuilderNeverCooked ==
  /\ lastEnd.happened =>
       /\ lastEnd.cooked <=> SegHasHeader(regex, lastEnd.seg)
       /\ ~SegHasHeader(regex, lastEnd.seg) =>
            objects = lastEnd.before /\ ~uncaught.raised
  /\ (promise.state = "resolved" /\ headerSegs = 0) => objects = <<>>

\* An input of free text, a separator and free text has resolved
FreeTextOnlyResolved ==
  /\ promise.state = "resolved"
  /\ headerSegs = 0
  /\ nlines >= 3
  /\ lastEnd.seg # <<>>
  /\ Keys(lastEnd.raw) = <<MetaKey>>

----------------------------------------------------------------------------
(* C11 *)

\* The processor configurations of a dictionary
FieldDefs(d) ==
  UNION {{d.types[i].fields_by_header[j].def :
            j \in 1..Len(d.types[i].fields_by_header)} : i \in 1..Len(d.types)}

\* Does a configuration name an unknown processor kind or lack an option
\* its processor requires
Misconfigured(d) ==
  \E fieldDef \in FieldDefs(d) :
    \/ fieldDef.type \notin ProcessorKinds
    \/ MissingOptions(fieldDef) # {}

\* The errors the making of a processor raises
ConfigurationError(e) ==
  \/ e = TypeError("FIELD_TYPES[fieldDef.type]")
  \/ e = ReferenceError("this")

\* C11: the construction of an OrderParser from a dictionary with a
\* fields_by_header entry that lacks a required option or names an unknown
\* kind fails, so that no parse runs under such a dictionary; no error of
\* the configuration is raised while an input is parsed; and a header whose
\* kind is unknown never goes by without an error.
ConfigurationErrorsRaisedAtLoad ==
  /\ Misconfigured(dictionary) => OrderParser(dictionary).threw
  /\ ~(uncaught.raised /\ ConfigurationError(uncaught.error))
  /\ (Misconfigured(dictionary) /\ promise.state = "resolved") => nlines = 0

\* What holds instead: under such a dictionary the error is raised by the
\* end of the first record that holds the header of the entry, and a parse
\* whose input does not hold that header resolves.
ConfigurationErrorsRaisedAtCook ==
  Misconfigured(dictionary) =>
    /\ ~OrderParser(dictionary).threw
    /\ (lastEnd.happened /\ HasKey(lastEnd.raw, H_Bar)) =>
         /\ lastEnd.out.threw
         /\ ConfigurationError(lastEnd.out.error)
         /\ uncaught = Raised(lastEnd.out.error)
         /\ promise = Pending
    /\ (lastEnd.happened /\ ~HasKey(lastEnd.raw, H_Bar)) => ~uncaught.raised

\* A parse under a dictionary with an unknown kind resolved with a record
UnknownKindWentUnnoticed ==
  /\ dictionary = DictUnknownKind
  /\ promise.state = "resolved"
  /\ Len(objects) >= 1

----------------------------------------------------------------------------
(* C12 *)

\* The line of a segment that holds the last header of the segment
LastHeaderLine(regexp, seg) ==
  SetMax({i \in 1..Len(seg) : SegHasHeader(regexp, <<seg[i]>>)})

\* The text that follows the last header on its line
RestOfHeaderLine(regexp, seg) ==
  LET parts == splitByMatches(regexp, seg[LastHeaderLine(regexp, seg)])
      last == SetMax(Headers(parts))
  IN  JoinRegions(parts, last + 1, Len(parts))

\* The lines of a segment after the line of its last header, trimmed,
\* without the blank ones
LinesAfterHeader(regexp, seg) ==
  LET m == LastHeaderLine(regexp, seg)
  IN  SelectSeq([j \in 1..(Len(seg) - m) |-> trim(seg[m + j])],
                LAMBDA l : l # <<>>)

\* The configuration of the table header of DictTable
TableDef == DictTable.types[1].fields_by_header[1].def

\* An end of record under DictTable whose segment holds the table header
TableSegment ==
  /\ dictionary = DictTable
  /\ lastEnd.happened
  /\ lastEnd.cooked

TableOfNamesOnlyCooked ==
  /\ TableSegment
  /\ ~lastEnd.out.threw
  /\ Len(LinesAfterHeader(regex, lastEnd.seg)) = 2
  /\ Get(lastEnd.out.result, "rows") = Table(<<>>)

----------------------------------------------------------------------------
(* C13 *)

\* The error the throw statement of field_followed_by_table raises
MalformedTable(header, count, numColumns) ==
  [kind |-> "malformed_table", header |-> header, lines |-> count,
   columns |-> numColumns]

\* An end of record whose table lines num_columns does not divide
MalformedTableSegment ==
  /\ TableSegment
  /\ Len(LinesAfterHeader(regex, lastEnd.seg)) % TableDef.num_columns # 0

\* C13: cooking a table whose non-blank lines are no multiple of
\* num_columns fails with the malformed-table error, which reports the
\* header and the number of lines, and produces no record.
MalformedTableReported ==
  MalformedTableSegment =>
    /\ lastEnd.out.threw
    /\ lastEnd.out.error
         = MalformedTable(H_T, Len(LinesAfterHeader(regex, lastEnd.seg)),
                          TableDef.num_columns)
    /\ objects = lastEnd.before

\* What holds instead: the cooking fails with the ReferenceError of the
\* undeclared name, which leaves the handler uncaught.
MalformedTableRaisesReferenceError ==
  MalformedTableSegment =>
    /\ lastEnd.out.threw
    /\ lastEnd.out.error = ReferenceError("trimmedLines")
    /\ uncaught = Raised(lastEnd.out.error)
    /\ objects = lastEnd.before
    /\ promise = Pending

----------------------------------------------------------------------------
(* C14 *)

\* The lines that are record separators under a dictionary: with "^---$"
\* the line of three dashes, with "^---" every line that starts with them,
\* without a pattern the lines of underscores
IsSeparatorLine(d, line) ==
  CASE d = DictCustom     -> line = Dashes
    [] d = DictCustomOpen -> StartsWith(line, Dashes)
    [] OTHER              -> line # <<>> /\ \A i \in 1..Len(line) : line[i] = "_"

\* C14: the line of the last 'line' event ended the record exactly when it
\* is a separator line of the dictionary: then the ObjectBuilder is fresh,
\* no field is open and nothing was stored, whatever headers the line holds,
\* and the capture that was finalized is that of the lines before it;
\* otherwise the line is among the lines of the record under construction
\* and was scanned as text.
SeparatorDecidedByDictionary ==
  (Running /\ fed # <<>>) =>
    LET line == fed[Len(fed)]
    IN  IF IsSeparatorLine(dictionary, line)
          THEN /\ segLines = <<>>
               /\ currObject = <<>>
               /\ multilineField = NoField
               /\ stored = <<>>
               /\ lastEnd.happened
               /\ lastEnd.event = "separator"
               /\ \A i \in 1..Len(lastEnd.seg) :
                    ~IsSeparatorLine(dictionary, lastEnd.seg[i])
               /\ lastEnd.raw
                    = FinishIfOpen(ScanSegment(regex, NewScanner, lastEnd.seg)).object
          ELSE /\ segLines # <<>>
               /\ segLines[Len(segLines)] = line
               /\ currObject = ScanSegment(regex, NewScanner, segLines).object
               /\ multilineField = ScanSegment(regex, NewScanner, segLines).multilineField

\* Under a custom separator a line of underscores went into a field, and
\* a separator line that holds a header ended the record without opening one
UnderscoresAreTextUnderCustomSeparator ==
  /\ dictionary = DictCustomOpen
  /\ Running
  /\ fed = << <<"F", "o", "o", ":", " ", "1">>, <<"_", "_">>,
              <<"-", "-", "-", "F", "o", "o", ":">> >>
  /\ objects = << <<[key |-> "foo", val |-> Str(<<"1", NL, "_", "_">>)]>> >>
  /\ multilineField = NoField

----------------------------------------------------------------------------
(* C15 *)

\* The places of the separator lines among the lines of an input
SeparatorLines(d, lines) ==
  {i \in 1..Len(lines) : recordSeparator(d, lines[i])}

\* A valid single-record input: no separator line, a header, and a parse
\* that raises no error
ValidSingleRecord(d, lines) ==
  /\ SeparatorLines(d, lines) = {}
  /\ SegHasHeader(buildDictionaryRegex(d), lines)
  /\ parse(d, lines).state = "resolved"

\* The input of a resolved parse is A, one separator line and B, both valid
\* single-record inputs
TwoRecordsJoined ==
  /\ promise.state = "resolved"
  /\ Cardinality(SeparatorLines(dictionary, fed)) = 1
  /\ LET k == SetMin(SeparatorLines(dictionary, fed))
     IN  /\ ValidSingleRecord(dictionary, SubSeq(fed, 1, k - 1))
         /\ ValidSingleRecord(dictionary, SubSeq(fed, k + 1, Len(fed)))

FirstInput == SubSeq(fed, 1, SetMin(SeparatorLines(dictionary, fed)) - 1)
SecondInput == SubSeq(fed, SetMin(SeparatorLines(dictionary, fed)) + 1, Len(fed))

\* Is the record of the second input filed under a record of the first
SecondOwnedByFirst ==
  LET raw == FinishIfOpen(ScanSegment(regex, NewScanner, SecondInput)).object
      type == identifyObjectType(raw, dictionary).type
      owner == ownerOf(dictionary, type)
  IN  /\ owner.declared
      /\ Owners(owner, processLoop(dictionary, raw, type, <<>>).obj,
                parse(dictionary, FirstInput).value) # {}

\* C15: parsing A, a separator line and B gives the records of parse(A)
\* followed by those of parse(B).
ParseOfJoinedIsJoinOfParses ==
  TwoRecordsJoined =>
    promise.value = parse(dictionary, FirstInput).value
                      \o parse(dictionary, SecondInput).value

\* C15 as amended: the same, when the record of B is not filed under the
\* record of A by its type's belongs_to rule.
ParseOfJoinedUnlessOwned ==
  (TwoRecordsJoined /\ ~SecondOwnedByFirst) =>
    promise.value = parse(dictionary, FirstInput).value
                      \o parse(dictionary, SecondInput).value

\* Two records without owner were joined, and a record was joined with a
\* child of another owner
TwoTopLevelRecordsJoined ==
  /\ TwoRecordsJoined
  /\ ~SecondOwnedByFirst
  /\ Len(promise.value) = 2
  /\ Len(FirstInput) = 2

ChildOfAnotherOwnerJoined ==
  /\ TwoRecordsJoined
  /\ ~SecondOwnedByFirst
  /\ ownerOf(dictionary, lastEnd.out.type).declared
  /\ Len(promise.value) = 1

----------------------------------------------------------------------------
(* C16 *)

\* The local state the parse p has when it is given its lines alone
Alone(p) == lineEvents(dictionary, NewParse, parses[p].lines)

\* Every parse of two is in the state it has alone after the same lines,
\* has resolved as alone when its stream has closed, and the shared regex
\* is at rest between two events.
ParsesShareNoState ==
  /\ lastIndex = 0
  /\ \A p \in DOMAIN parses :
       IF parses[p].input = "open"
         THEN /\ parses[p].st = Alone(p)
              /\ parses[p].promise = Pending
         ELSE /\ parses[p].promise = parse(dictionary, parses[p].lines)
              /\ parses[p].promise.state = "resolved"
                   => parses[p].st.objects = parses[p].promise.value

\* C16: each of two parses on one parser goes as it goes alone: it shares
\* no state with the other, resolves to what it resolves to alone, and is
\* stopped by no error but one of its own.
ConcurrentParsesAsAlone ==
  /\ ParsesShareNoState
  /\ \A p \in DOMAIN parses : uncaught.raised => parses[p].threw

\* Both parses have resolved, each with a record of its own
BothParsesResolved ==
  /\ parses # <<>>
  /\ \A p \in DOMAIN parses : parses[p].promise.state = "resolved"
  /\ parses[1].lines = << <<"A", ":", "1">>, <<"_", "_">> >>
  /\ Len(parses[1].promise.value) = 1
  /\ parses[2].lines = << <<"B", ":", "2">>, <<"B", ":", "2">> >>

----------------------------------------------------------------------------
(* C17 *)

\* The segments of the lines of an input that a separator line has closed,
\* in input order
RECURSIVE ClosedSegments(_, _, _)
ClosedSegments(d, lines, seg) ==
  IF lines = <<>> THEN <<>>
  ELSE IF recordSeparator(d, Head(lines))
    THEN <<seg>> \o ClosedSegments(d, Tail(lines), <<>>)
  ELSE ClosedSegments(d, Tail(lines), Append(seg, Head(lines)))

\* The lines after the last separator line
RECURSIVE OpenSegment(_, _, _)
OpenSegment(d, lines, seg) ==
  IF lines = <<>> THEN seg
  ELSE IF recordSeparator(d, Head(lines))
    THEN OpenSegment(d, Tail(lines), <<>>)
  ELSE OpenSegment(d, Tail(lines), Append(seg, Head(lines)))

\* The segments completed so far: those a separator has closed, and the
\* last one once the input has ended
CompletedSegments ==
  ClosedSegments(dictionary, fed, <<>>)
    \o (IF input = "closed" THEN <<OpenSegment(dictionary, fed, <<>>)>> ELSE <<>>)

\* The top-level records that segments give when each is parsed by itself,
\* in the order of the segments
RECURSIVE RecordsOf(_, _)
RecordsOf(d, segs) ==
  IF segs = <<>> THEN <<>>
  ELSE parse(d, Head(segs)).value \o RecordsOf(d, Tail(segs))

\* The top-level records of an output without the children filed in them
TopLevel(objs) == [i \in 1..Len(objs) |-> Without(objs[i], "suborders")]

\* C17: the top-level records of the output are, in order, the records of
\* the completed segments in the order in which the segments were completed,
\* whatever children were filed in them in between.
OutputInSegmentOrder ==
  ~uncaught.raised => TopLevel(objects) = RecordsOf(dictionary, CompletedSegments)

\* A child was filed in the first of two top-level records after the second
\* had been produced
ChildFiledAfterLaterRecord ==
  /\ promise.state = "resolved"
  /\ Len(objects) = 2
  /\ HasKey(objects[1], "suborders")
  /\ Get(objects[1], "foo") = Str(<<"1">>)
  /\ Get(objects[2], "foo") = Str(<<"2">>)
  /\ lastEnd.out.filed = "nested"

----------------------------------------------------------------------------
(* C18 *)

\* The places of the headers among regions, in order
HeaderPlaces(rs) ==
  SelectSeq([i \in 1..Len(rs) |-> i], LAMBDA i : rs[i].isMatch)

\* The fields opened since the last separator, in order: those finished
\* and stored, and the open one
FieldsOpened ==
  stored \o (IF multilineField.open
               THEN <<[header |-> multilineField.header,
                       value |-> multilineField.value]>>
               ELSE <<>>)

\* The fields the headers of regions are to open: one per header, with the
\* unmatched text that follows it up to the next header
FieldsOfHeaders(rs) ==
  [n \in 1..Len(HeaderPlaces(rs)) |->
     [header |-> rs[HeaderPlaces(rs)[n]].value,
      value |-> TextAfter(rs, HeaderPlaces(rs)[n])]]

\* C18: every header matched on a line finishes the open field and opens a
\* field of its own, whose value starts with the region that follows only
\* if that region is unmatched: the fields opened since the last separator
\* are, in order, one per header, each with the text between its header and
\* the next, which is empty for a header directly followed by another.
EveryHeaderOpensField ==
  Running => FieldsOpened = FieldsOfHeaders(SegRegions(regex, segLines))

\* The same for the segments in which no header directly follows another
EveryHeaderApartFromAdjacentOpensField ==
  (Running /\ ~AdjacentHeaders(SegRegions(regex, segLines)))
    => EveryHeaderOpensField

\* What the code does with a header directly followed by another: the
\* second header is the start of the value of the first, and opens no field
SecondHeaderTakenAsValue ==
  /\ Running
  /\ segLines = << <<"F", "o", "o", ":", "B", "a", "r", ":", " ", "2">> >>
  /\ stored = <<>>
  /\ multilineField = OpenField(H_Foo, <<"B", "a", "r", ":", " ", "2">>)

----------------------------------------------------------------------------
(* C19 *)

\* Does a header of the dictionary occur in a line
HoldsHeader(d, line) ==
  \E i \in 0..Len(line), k \in 1..Len(allHeaders(d.types)) :
    MatchesAt(allHeaders(d.types)[k], line, i)

\* C19: the regions splitByMatches gives for a line the parse was given
\* cover the line in order without gap or overlap; every matched region is
\* a header of the dictionary; an unmatched region is empty only as the one
\* region of the empty line; and a line that holds no header gives the one
\* unmatched region that is the line.
RegionsCoverLine ==
  \A n \in 1..Len(fed) :
    LET line == fed[n]
        parts == splitByMatchesAt(regex, lastIndex, line)
    IN  /\ JoinRegions(parts, 1, Len(parts)) = line
        /\ Len(parts) >= 1
        /\ \A j \in 1..Len(parts) :
             /\ parts[j].isMatch =>
                  \E k \in 1..Len(regex) : parts[j].value = regex[k]
             /\ (~parts[j].isMatch /\ parts[j].value = <<>>) =>
                  line = <<>> /\ Len(parts) = 1
        /\ ~HoldsHeader(dictionary, line) => parts = <<StringRegion(line, FALSE)>>
        /\ HoldsHeader(dictionary, line) => \E j \in 1..Len(parts) : parts[j].isMatch

\* A line of text, a header and text was split in three, and so handled:
\* the first text was reported, the last is the value of the open field
LineSplitInThree ==
  /\ Running
  /\ fed = << <<"H", "i", " ", "F", "o", "o", ":", " ", "3">> >>
  /\ Len(splitByMatchesAt(regex, lastIndex, fed[1])) = 3
  /\ multilineField = OpenField(H_Foo, <<" ", "3">>)
  /\ Warnings(currObject, MetaKey) = <<IgnoredHeader(<<"H", "i", " ">>)>>

----------------------------------------------------------------------------
(* C20 *)

\* The headers of a raw capture: its keys apart from _meta
CapturedHeaders(raw) == {Keys(raw)[i] : i \in 1..Len(raw)} \ {MetaKey}

\* The last end of record cooked a capture that identifyObjectType gave a
\* type
LastCaptureClassified ==
  /\ lastEnd.happened
  /\ lastEnd.cooked
  /\ ~identifyObjectType(lastEnd.raw, dictionary).threw
  /\ identifyObjectType(lastEnd.raw, dictionary).type # NullType

LastCaptureType == identifyObjectType(lastEnd.raw, dictionary).type

\* cookObject left by the lookup error of FieldDictionary.process
LookupErrorRaised ==
  lastEnd.out.threw /\ lastEnd.out.error.kind = "no_processor"

\* C20 as stated: when a capture is classified with type T, every captured
\* header is declared by T, and process does not raise the lookup error.
ClassifiedCaptureDeclaredByType ==
  LastCaptureClassified =>
    /\ \A h \in CapturedHeaders(lastEnd.raw) :
         DeclaresHeader(TypeNamed(dictionary, LastCaptureType), h)
    /\ ~LookupErrorRaised

\* C20, amended: when a capture is classified with type T, every captured
\* header that exactly one type declares is declared by T; the lookup error
\* is raised only for a captured header that two or more types declare and
\* T does not, and never when T declares every captured header.
ClassifiedCaptureDeclaredWhereUnique ==
  LastCaptureClassified =>
    LET T == TypeNamed(dictionary, LastCaptureType)
        headers == CapturedHeaders(lastEnd.raw)
    IN  /\ \A h \in headers :
             Len(typesForHeader(dictionary.types, h)) = 1 => DeclaresHeader(T, h)
        /\ LookupErrorRaised =>
             /\ lastEnd.out.error.header \in headers
             /\ Len(typesForHeader(dictionary.types, lastEnd.out.error.header)) >= 2
             /\ ~DeclaresHeader(T, lastEnd.out.error.header)
             /\ lastEnd.out.error.type = LastCaptureType
        /\ (\A h \in headers : DeclaresHeader(T, h)) => ~lastEnd.out.threw

\* A capture with a header of its own type and a header two types share was
\* classified and cooked
SharedHeaderCookedWithItsType ==
  /\ LastCaptureClassified
  /\ LastCaptureType = "Beta"
  /\ CapturedHeaders(lastEnd.raw) = {H_B, H_S}
  /\ ~lastEnd.out.threw
  /\ objects = << <<[key |-> "b", val |-> Str(<<"2">>)],
                    [key |-> "s", val |-> Str(<<"3">>)]>> >>

\* A capture classified by its one unshared header holds a header that only
\* other types declare: the lookup error
SharedHeaderOfOtherTypes ==
  /\ LastCaptureClassified
  /\ LastCaptureType = "Alpha"
  /\ CapturedHeaders(lastEnd.raw) = {H_A, H_S}
  /\ LookupErrorRaised
  /\ uncaught.raised

----------------------------------------------------------------------------
(* C21 *)

IsNameLine(l) == StartsWith(l, ContactNameLabel)
IsPhoneLine(l) == StartsWith(l, TelephoneLabel)

\* The contact section of a location value: its lines from the first that
\* starts with "Contact ", without the blank ones
ContactSection(value) ==
  LET lines == splitLines(value)
      from == {i \in 1..Len(lines) : StartsWith(lines[i], ContactLabel)}
  IN  IF from = {} THEN <<>>
      ELSE SelectSeq(SubSeq(lines, SetMin(from), Len(lines)),
                     LAMBDA l : trim(l) # <<>>)

\* The contacts of a section read block by block: a block is a name line,
\* a telephone line, or a name line with the telephone line after it
RECURSIVE ContactBlocks(_)
ContactBlocks(lines) ==
  IF lines = <<>> THEN <<>>
  ELSE IF IsNameLine(lines[1])
    THEN IF Len(lines) >= 2 /\ IsPhoneLine(lines[2])
           THEN <<Contact(captureAfter(ContactNameLabel, lines[1]),
                          captureAfter(TelephoneLabel, lines[2]))>>
                \o ContactBlocks(SubSeq(lines, 3, Len(lines)))
           ELSE <<Contact(captureAfter(ContactNameLabel, lines[1]), Null)>>
                \o ContactBlocks(Tail(lines))
  ELSE IF IsPhoneLine(lines[1])
    THEN <<Contact(Null, captureAfter(TelephoneLabel, lines[1]))>>
         \o ContactBlocks(Tail(lines))
  ELSE ContactBlocks(Tail(lines))

\* The last end of record cooked a capture whose location value has a
\* contact section of name and telephone lines only
LocationCooked ==
  /\ lastEnd.happened
  /\ lastEnd.cooked
  /\ ~lastEnd.out.threw
  /\ HasKey(lastEnd.raw, H_PrimaryLocation)

LastContactSection == ContactSection(Get(lastEnd.raw, H_PrimaryLocation).s)

ContactSectionOfBlocks ==
  /\ LocationCooked
  /\ LastContactSection # <<>>
  /\ \A i \in 1..Len(LastContactSection) :
       IsNameLine(LastContactSection[i]) \/ IsPhoneLine(LastContactSection[i])

\* C21: the contacts of a cooked location are those of the blocks of its
\* contact section, one contact per block in input order with the name and
\* the phone of the block's own lines, a missing half being none.
ContactsReadByBlock ==
  ContactSectionOfBlocks =>
    Get(lastEnd.out.result, "contacts") = Arr(ContactBlocks(LastContactSection))

\* Every block but the last has both its lines
BlocksComplete(lines) ==
  /\ \A i \in 1..Len(lines) : IsPhoneLine(lines[i]) => i > 1 /\ IsNameLine(lines[i - 1])
  /\ \A i \in 1..(Len(lines) - 1) : IsNameLine(lines[i]) => IsPhoneLine(lines[i + 1])

\* What holds of the code: the contacts are those of the blocks when no
\* block but the last lacks a half.
ContactsReadWhenBlocksComplete ==
  (ContactSectionOfBlocks /\ BlocksComplete(LastContactSection)) =>
    Get(lastEnd.out.result, "contacts") = Arr(ContactBlocks(LastContactSection))

\* A block without its telephone line made the block after it disappear
ContactAfterHalfBlockLost ==
  /\ ContactSectionOfBlocks
  /\ LastContactSection = << <<"C", "o", "n", "t", "a", "c", "t", " ", "N", "a", "m", "e", " ", "A">>,
                             <<"C", "o", "n", "t", "a", "c", "t", " ", "N", "a", "m", "e", " ", "B">>,
                             <<"T", "e", "l", "e", "p", "h", "o", "n", "e", " ", "2">> >>
  /\ Get(lastEnd.out.result, "contacts") = Arr(<<Contact(Str(<<"A">>), Null)>>)

----------------------------------------------------------------------------
(* C22 *)

\* The last end of record filed its record under a top-level record
ChildAttached ==
  /\ lastEnd.happened
  /\ lastEnd.cooked
  /\ ~lastEnd.out.threw
  /\ lastEnd.out.filed = "nested"

AttachedParent == lastEnd.before[lastEnd.out.owner]
AttachedChild == lastEnd.out.result
AttachedOn == ownerOf(dictionary, lastEnd.out.type).match_on

\* C22: a child is attached to a parent only when both have the match_on
\* field, with equal values.
ChildAttachedOnlyOnMatch ==
  ChildAttached =>
    /\ HasKey(AttachedParent, AttachedOn)
    /\ HasKey(AttachedChild, AttachedOn)
    /\ Get(AttachedParent, AttachedOn) = Get(AttachedChild, AttachedOn)

\* Under a belongs_to without match_on, a child was attached to an order
\* with another foo
ChildAttachedWithoutMatchOn ==
  /\ dictionary = DictBy
  /\ ChildAttached
  /\ Get(AttachedParent, "foo") = Str(<<"1">>)
  /\ Get(AttachedChild, "foo") = Str(<<"2">>)

\* A child without the match_on field was attached to an order without it
ChildAttachedWithoutField ==
  /\ dictionary = DictOptional
  /\ ChildAttached
  /\ ~HasKey(AttachedParent, "foo")
  /\ ~HasKey(AttachedChild, "foo")

----------------------------------------------------------------------------
(* C23 *)

\* Is the sequence a the start of the sequence b
IsPrefix(a, b) == Len(a) <= Len(b) /\ SubSeq(b, 1, Len(a)) = a

\* A record of the output after a step, against the record before it: every
\* property is still there; one that held a list of children holds a list
\* that starts with it; any other holds the same value; a new property is
\* a list of children.
RecordKept(old, new) ==
  /\ \A i \in 1..Len(old) :
       LET k == old[i].key
       IN  /\ HasKey(new, k)
           /\ IF old[i].val.t = "arr"
                THEN /\ Get(new, k).t = "arr"
                     /\ IsPrefix(old[i].val.items, Get(new, k).items)
                ELSE Get(new, k) = old[i].val
  /\ \A j \in 1..Len(new) :
       ~HasKey(old, new[j].key) => new[j].val.t = "arr"

\* C23: the output is append-only.  In every step each record of the output
\* keeps its index, its fields and its _meta; only a list of children grows.
OutputAppendOnly ==
  [][\A i \in 1..Len(objects) :
       /\ i <= Len(objects')
       /\ RecordKept(objects[i], objects'[i])]_vars

\* An order with an empty foo has had its foo replaced by its children
FieldReplacedByChildren ==
  /\ dictionary = DictAs
  /\ lastEnd.happened
  /\ ~lastEnd.out.threw
  /\ lastEnd.before = << <<[key |-> "foo", val |-> Str(<<>>)]>> >>
  /\ objects = << <<[key |-> "foo",
                     val |-> Arr(<< <<[key |-> "foo", val |-> Str(<<>>)]>> >>)]>> >>

----------------------------------------------------------------------------
(* C25 *)

\* Is the header g a proper start of the header h
ProperPrefix(g, h) == Len(g) < Len(h) /\ StartsWith(h, g)

\* The 0-based index in the line at which the region j begins
RegionStart(parts, j) == Len(JoinRegions(parts, 1, j - 1))

\* C25: where a header that has another header as a proper start occurs in
\* a line the parse was given, splitByMatches gives a matched region of the
\* longer header at that place, whichever of the two was declared first.
LongerHeaderRecognized ==
  \A n \in 1..Len(fed) :
    LET line == fed[n]
        parts == splitByMatchesAt(regex, lastIndex, line)
    IN  \A h \in 1..Len(regex), g \in 1..Len(regex), i \in 0..Len(line) :
          (ProperPrefix(regex[g], regex[h]) /\ MatchesAt(regex[h], line, i)) =>
            \E j \in 1..Len(parts) :
              /\ parts[j].isMatch
              /\ parts[j].value = regex[h]
              /\ RegionStart(parts, j) = i

\* What holds of the code: the longer header is recognized when it is
\* declared before the shorter.
LongerHeaderRecognizedWhenFirst ==
  \A n \in 1..Len(fed) :
    LET line == fed[n]
        parts == splitByMatchesAt(regex, lastIndex, line)
    IN  \A h \in 1..Len(regex), g \in 1..Len(regex), i \in 0..Len(line) :
          (h < g /\ ProperPrefix(regex[g], regex[h]) /\ MatchesAt(regex[h], line, i)) =>
            \E j \in 1..Len(parts) :
              /\ parts[j].isMatch
              /\ parts[j].value = regex[h]
              /\ RegionStart(parts, j) = i

\* The shorter header, declared first, was matched inside the longer, and
\* the colon became the start of its value
ShorterHeaderTaken ==
  /\ dictionary = DictShortFirst
  /\ Running
  /\ fed = << <<"F", "o", "o", ":", " ", "1">> >>
  /\ multilineField = OpenField(H_FooBare, <<":", " ", "1">>)

\* The longer header, declared first, was matched as itself
LongerHeaderTaken ==
  /\ dictionary = DictLongFirst
  /\ Running
  /\ fed = << <<"F", "o", "o", ":", " ", "1">> >>
  /\ multilineField = OpenField(H_Foo, <<" ", "1">>)

----------------------------------------------------------------------------
(* C24 *)

\* The loop of allMatches is over: no call is in its loop, or the next
\* exec finds nothing and ends it
LoopOver == ~matching.busy \/ ~exec(regex, matching.s, lastIndex).found

\* C24: header matching terminates: a call of allMatches comes to the exec
\* that ends its loop.
AllMatchesReturns == matching.busy ~> LoopOver

\* C24, the progress of the loop: an exec that finds a match leaves
\* lastIndex further on than it was.
ExecMakesProgress ==
  [][(matching.busy /\ matching'.busy) => lastIndex' > lastIndex]_vars

\* What holds of the code: under a dictionary whose headers are not empty
\* every exec that finds a match moves lastIndex on.
ExecMakesProgressOnHeaders ==
  [][(matching.busy /\ matching'.busy
        /\ \A k \in 1..Len(regex) : regex[k] # <<>>) =>
       lastIndex' > lastIndex]_vars

\* The loop has pushed more matches of the empty text than the line has
\* places, and the next exec finds one more where the last was found
LoopOnEmptyMatch ==
  /\ matching.busy
  /\ matching.s = <<"x">>
  /\ Len(matching.results) = MaxMatches
  /\ exec(regex, matching.s, lastIndex).found
  /\ exec(regex, matching.s, lastIndex).index = lastIndex
  /\ exec(regex, matching.s, lastIndex).text = <<>>

====
